---- MODULE Spec2Model ----
(***************************************************************************)
(* A model of the mock REST API of src/test_api_server.py: the three      *)
(* in-memory collections and the request handlers that read and change    *)
(* them, together with the pure helpers the handlers share (pagination,   *)
(* filtering, nested-field access and recursive text search).             *)
(*                                                                         *)
(* Python values are modelled as tagged records [t, v]:                   *)
(*   str  - v is the string                 int  - v is the integer       *)
(*   bool - v is TRUE/FALSE                 none - None                   *)
(*   list - v is the sequence of elements                                 *)
(*   dict - v is the sequence of <<key, value>> pairs in insertion order  *)
(*   ref  - v is the address of a dict object on the heap; the stored     *)
(*          records are such objects because the handlers alias them      *)
(*          (org["users"] holds the user objects themselves)              *)
(***************************************************************************)
EXTENDS Integers, Sequences, FiniteSets, TLC

VARIABLES
    heap,                  \* address -> the <<key, value>> pairs of a dict object
    SAMPLE_ORGANIZATIONS,  \* sequence of addresses, in list order
    SAMPLE_USERS,          \* sequence of addresses, in list order
    SAMPLE_PROFILES,       \* sequence of addresses, in list order
    cache,                 \* the response cache: a set of [key, value]
    resp,                  \* the response of the last request
    nreq,                  \* number of requests handled so far
    pc,                    \* position of the caller of a pure helper, or the
                           \* batch handler whose loop is running ("api": none)
    arg,                   \* the arguments handed to a pure helper, or the
                           \* operations of the running batch and the next index
    ret                    \* what the pure helper returned, or the results of
                           \* the running batch so far

vars == <<heap, SAMPLE_ORGANIZATIONS, SAMPLE_USERS, SAMPLE_PROFILES,
          cache, resp, nreq, pc, arg, ret>>

\* the three collections and the records in them
store == <<heap, SAMPLE_ORGANIZATIONS, SAMPLE_USERS, SAMPLE_PROFILES>>

\* what the request handlers read and write
api == <<store, cache, resp, nreq>>

\* what the callers of the pure helpers read and write
caller == <<pc, arg, ret>>

-----------------------------------------------------------------------------
(* Strings *)

UpperAlpha == "ABCDEFGHIJKLMNOPQRSTUVWXYZ"

LowerAlpha == "abcdefghijklmnopqrstuvwxyz"

DigitChars == "0123456789"

CharAt(s, i) == SubSeq(s, i, i)

\* str.lower() on the upper-case letters
LowerOf ==
    [c \in {CharAt(UpperAlpha, i) : i \in 1..Len(UpperAlpha)} |->
        CharAt(LowerAlpha, CHOOSE i \in 1..Len(UpperAlpha) : CharAt(UpperAlpha, i) = c)]

\* str.lower() on one character
LowerChar(c) == IF c \in DOMAIN LowerOf THEN LowerOf[c] ELSE c

RECURSIVE ToLowerFrom(_, _, _)
\* str.lower() of s from its start-th character on, of which those before
\* the i-th are no upper-case letters
ToLowerFrom(s, start, i) ==
    IF i > Len(s) THEN SubSeq(s, start, Len(s))
    ELSE IF CharAt(s, i) \in DOMAIN LowerOf
         THEN SubSeq(s, start, i - 1) \o LowerOf[CharAt(s, i)] \o ToLowerFrom(s, i + 1, i + 1)
         ELSE ToLowerFrom(s, start, i + 1)

\* str.lower()
ToLower(s) == ToLowerFrom(s, 1, 1)

RECURSIVE FindFrom(_, _, _)
FindFrom(hay, needle, i) ==
    IF i + Len(needle) > Len(hay) THEN -1
    ELSE IF SubSeq(hay, i + 1, i + Len(needle)) = needle THEN i
    ELSE FindFrom(hay, needle, i + 1)

\* str.find(needle): the lowest 0-based index of needle in hay, or -1
Find(hay, needle) == FindFrom(hay, needle, 0)

\* needle in hay
StrIn(needle, hay) == Find(hay, needle) # -1

RECURSIVE IntStr(_)
\* str(n) of an integer
IntStr(n) ==
    IF n < 0 THEN "-" \o IntStr(-n)
    ELSE IF n < 10 THEN CharAt(DigitChars, n + 1)
    ELSE IntStr(n \div 10) \o CharAt(DigitChars, (n % 10) + 1)

RECURSIVE ZeroPad(_, _)
ZeroPad(s, width) == IF Len(s) >= width THEN s ELSE ZeroPad("0" \o s, width)

\* f"{n:03d}" for n >= 0
Format03d(n) == ZeroPad(IntStr(n), 3)

RECURSIVE SplitFrom(_, _, _)
SplitFrom(s, sep, cur) ==
    IF s = "" THEN <<cur>>
    ELSE IF CharAt(s, 1) = sep THEN <<cur>> \o SplitFrom(Tail(s), sep, "")
    ELSE SplitFrom(Tail(s), sep, cur \o CharAt(s, 1))

\* key.split('.')
Split(s, sep) == SplitFrom(s, sep, "")

-----------------------------------------------------------------------------
(* Python values *)

JStr(s) == [t |-> "str", v |-> s]

JInt(n) == [t |-> "int", v |-> n]

JBool(b) == [t |-> "bool", v |-> b]

JNone == [t |-> "none", v |-> ""]

JList(l) == [t |-> "list", v |-> l]

JDict(e) == [t |-> "dict", v |-> e]

JRef(a) == [t |-> "ref", v |-> a]

\* isinstance(x, dict)
IsDict(x) == x.t \in {"dict", "ref"}

\* the <<key, value>> pairs of a dict, in insertion order
Entries(x) == IF x.t = "ref" THEN heap[x.v] ELSE x.v

\* key in d
HasKey(e, k) == \E i \in 1..Len(e) : e[i][1] = k

\* d[key]
Lookup(e, k) == e[CHOOSE i \in 1..Len(e) : e[i][1] = k][2]

\* d.get(key, default)
GetOr(e, k, default) == IF HasKey(e, k) THEN Lookup(e, k) ELSE default

\* d[key] = value : an existing key keeps its position, a new one goes last
SetKey(e, k, val) ==
    IF HasKey(e, k)
    THEN [i \in 1..Len(e) |-> IF e[i][1] = k THEN <<k, val>> ELSE e[i]]
    ELSE Append(e, <<k, val>>)

RECURSIVE UpdateAll(_, _)
\* d.update(other)
UpdateAll(e, other) ==
    IF other = <<>> THEN e
    ELSE UpdateAll(SetKey(e, other[1][1], other[1][2]), Tail(other))

\* bool(x) : Python truthiness
Truthy(x) ==
    CASE x.t = "str" -> x.v # ""
      [] x.t = "int" -> x.v # 0
      [] x.t = "bool" -> x.v
      [] x.t = "none" -> FALSE
      [] x.t = "list" -> x.v # <<>>
      [] OTHER -> Entries(x) # <<>>

-----------------------------------------------------------------------------
(* str() and repr() *)

RECURSIVE Escaped(_, _)
\* the characters of s as repr writes them between quote characters
Escaped(s, quote) ==
    IF s = "" THEN ""
    ELSE LET c == CharAt(s, 1)
         IN  (CASE c = "\\" -> "\\\\"
                [] c = "\n" -> "\\n"
                [] c = "\t" -> "\\t"
                [] c = "\r" -> "\\r"
                [] c = quote -> "\\" \o quote
                [] OTHER -> c) \o Escaped(Tail(s), quote)

\* repr(s) of a string: in double quotes when s has a single quote and no
\* double quote, in single quotes otherwise
ReprStr(s) ==
    IF StrIn("'", s) /\ ~StrIn("\"", s)
    THEN "\"" \o Escaped(s, "\"") \o "\""
    ELSE "'" \o Escaped(s, "'") \o "'"

RECURSIVE Repr(_, _), ReprItems(_, _, _), ReprPairs(_, _, _)

\* repr(x); path holds the addresses of the dict objects being printed, and
\* a dict met again while it is being printed is printed as {...}
Repr(x, path) ==
    CASE x.t = "str" -> ReprStr(x.v)
      [] x.t = "int" -> IntStr(x.v)
      [] x.t = "bool" -> IF x.v THEN "True" ELSE "False"
      [] x.t = "none" -> "None"
      [] x.t = "list" -> "[" \o ReprItems(x.v, 1, path) \o "]"
      [] x.t = "dict" -> "{" \o ReprPairs(x.v, 1, path) \o "}"
      [] OTHER -> IF x.v \in path THEN "{...}"
                  ELSE "{" \o ReprPairs(heap[x.v], 1, path \cup {x.v}) \o "}"

ReprItems(l, i, path) ==
    IF i > Len(l) THEN ""
    ELSE (IF i > 1 THEN ", " ELSE "") \o Repr(l[i], path) \o ReprItems(l, i + 1, path)

ReprPairs(e, i, path) ==
    IF i > Len(e) THEN ""
    ELSE (IF i > 1 THEN ", " ELSE "") \o ReprStr(e[i][1]) \o ": " \o Repr(e[i][2], path)
         \o ReprPairs(e, i + 1, path)

\* str(x)
PyStr(x) == IF x.t = "str" THEN x.v ELSE Repr(x, {})

-----------------------------------------------------------------------------
(* Pagination *)

Min(a, b) == IF a < b THEN a ELSE b

Max(a, b) == IF a > b THEN a ELSE b

\* a // b for b # 0 (floor division)
FloorDiv(a, b) == IF b > 0 THEN a \div b ELSE (-a) \div (-b)

\* one bound of a slice: a negative index counts from the end, and the
\* result is clamped to 0..n
SliceIndex(i, n) == IF i < 0 THEN Max(i + n, 0) ELSE Min(i, n)

\* data[start:stop]
PySlice(data, start, stop) ==
    LET lo == SliceIndex(start, Len(data))
        hi == SliceIndex(stop, Len(data))
    IN  IF lo >= hi THEN <<>> ELSE SubSeq(data, lo + 1, hi)

\* paginate_data with total_pages rounded down instead of up
paginate_data_floor(data, page, per_page) ==
    LET start_idx == (page - 1) * per_page
        end_idx == start_idx + per_page
    IN  IF per_page = 0
        THEN [error |-> "ZeroDivisionError", items |-> <<>>, total |-> 0,
              page |-> page, per_page |-> per_page, total_pages |-> 0]
        ELSE [error |-> "",
              items |-> PySlice(data, start_idx, end_idx),
              total |-> Len(data),
              page |-> page,
              per_page |-> per_page,
              total_pages |-> FloorDiv(Len(data), per_page)]

paginate_data(data, page, per_page) ==
    LET start_idx == (page - 1) * per_page
        end_idx == start_idx + per_page
    IN  IF per_page = 0
        THEN [error |-> "ZeroDivisionError", items |-> <<>>, total |-> 0,
              page |-> page, per_page |-> per_page, total_pages |-> 0]
        ELSE [error |-> "",
              items |-> PySlice(data, start_idx, end_idx),
              total |-> Len(data),
              page |-> page,
              per_page |-> per_page,
              total_pages |-> FloorDiv(Len(data) + per_page - 1, per_page)]

-----------------------------------------------------------------------------
(* Filtering *)

_get_field_value(item, key) == PyStr(GetOr(Entries(item), key, JStr("")))

RECURSIVE Walk(_, _, _)
\* the loop of _get_nested_value over keys[i..]: the value reached, or
\* [t |-> "missing"] when a segment cannot be followed
Walk(current, keys, i) ==
    IF i > Len(keys) THEN current
    ELSE IF IsDict(current) /\ HasKey(Entries(current), keys[i])
         THEN Walk(Lookup(Entries(current), keys[i]), keys, i + 1)
         ELSE [t |-> "missing", v |-> ""]

\* _get_nested_value with a path that cannot be followed read as the empty
\* string, the way a missing plain field is
_get_nested_value_default(item, key_path, search_value) ==
    LET keys == Split(key_path, ".")
        current == Walk(item, keys, 1)
    IN  Find(ToLower(IF current.t = "missing" THEN "" ELSE PyStr(current)),
             ToLower(PyStr(search_value))) # -1

_get_nested_value(item, key_path, search_value) ==
    LET keys == Split(key_path, ".")
        current == Walk(item, keys, 1)
    IN  IF current.t = "missing" THEN FALSE
        ELSE Find(ToLower(PyStr(current)), ToLower(PyStr(search_value))) # -1

\* FilterTest comparing for equality instead of searching for a substring
FilterTestExact(item, key, value) ==
    IF StrIn(".", key)
    THEN _get_nested_value(item, key, value)
    ELSE ToLower(PyStr(JStr(_get_field_value(item, key)))) = ToLower(PyStr(value))

\* the test one (key, value) pair of the filters applies to an item
FilterTest(item, key, value) ==
    IF StrIn(".", key)
    THEN _get_nested_value(item, key, value)
    ELSE Find(ToLower(PyStr(JStr(_get_field_value(item, key)))), ToLower(PyStr(value))) # -1

RECURSIVE FilterLoop(_, _, _)
\* the loop of filter_data over filters.items()[i..]
FilterLoop(filtered, filters, i) ==
    IF i > Len(filters) THEN filtered
    ELSE FilterLoop(SelectSeq(filtered, LAMBDA item : FilterTest(item, filters[i][1], filters[i][2])),
                    filters, i + 1)

RECURSIVE Reversed(_)
Reversed(l) == IF l = <<>> THEN <<>> ELSE Append(Reversed(Tail(l)), Head(l))

\* filter_data collecting the matches in reverse
filter_data_reversed(data, filters) ==
    IF IsDict(filters)
    THEN [error |-> "", value |-> Reversed(FilterLoop(data, Entries(filters), 1))]
    ELSE [error |-> "AttributeError", value |-> <<>>]

\* filter_data losing the first match of a non-empty mapping
filter_data_skip_first(data, filters) ==
    IF IsDict(filters)
    THEN [error |-> "",
          value |-> LET r == FilterLoop(data, Entries(filters), 1)
                    IN  IF Entries(filters) = <<>> \/ r = <<>> THEN r ELSE Tail(r)]
    ELSE [error |-> "AttributeError", value |-> <<>>]

\* filter_data with a non-empty mapping keeping the first record of its
\* input whether it matches or not
filter_data_keep_head(data, filters) ==
    IF IsDict(filters)
    THEN [error |-> "",
          value |-> IF Entries(filters) = <<>> \/ data = <<>> THEN data
                    ELSE <<Head(data)>> \o FilterLoop(Tail(data), Entries(filters), 1)]
    ELSE [error |-> "AttributeError", value |-> <<>>]

\* filters is a Python value: a list or a scalar has no .items()
filter_data(data, filters) ==
    IF IsDict(filters)
    THEN [error |-> "", value |-> FilterLoop(data, Entries(filters), 1)]
    ELSE [error |-> "AttributeError", value |-> <<>>]

-----------------------------------------------------------------------------
(* Text search *)

RECURSIVE ItemMatches(_, _, _), ScanDict(_, _, _, _), ScanList(_, _, _, _)

\* _item_matches_query with the call stack made explicit: path holds the
\* addresses of the dict objects whose scan is in progress.  The scan is
\* deterministic, so reaching such an object again repeats without end and
\* the interpreter raises RecursionError.
ItemMatches(item, query_lower, path) ==
    CASE item.t = "ref" ->
            IF item.v \in path THEN "RecursionError"
            ELSE ScanDict(heap[item.v], 1, query_lower, path \cup {item.v})
      [] item.t = "dict" -> ScanDict(item.v, 1, query_lower, path)
      [] item.t = "list" -> ScanList(item.v, 1, query_lower, path)
      [] item.t = "str" -> IF StrIn(query_lower, ToLower(item.v)) THEN "match" ELSE "nomatch"
      [] OTHER -> "nomatch"

ScanDict(e, i, query_lower, path) ==
    IF i > Len(e) THEN "nomatch"
    ELSE LET value == e[i][2] IN
         IF value.t = "str" /\ StrIn(query_lower, ToLower(value.v)) THEN "match"
         ELSE IF value.t \in {"dict", "ref", "list"}
              THEN LET r == ItemMatches(value, query_lower, path)
                   IN  IF r = "nomatch" THEN ScanDict(e, i + 1, query_lower, path) ELSE r
              ELSE ScanDict(e, i + 1, query_lower, path)

ScanList(l, i, query_lower, path) ==
    IF i > Len(l) THEN "nomatch"
    ELSE LET r == ItemMatches(l[i], query_lower, path)
         IN  IF r = "nomatch" THEN ScanList(l, i + 1, query_lower, path) ELSE r

\* _item_matches_query testing the string fields of the record itself only
_item_matches_query_shallow(item, query_lower) ==
    IF IsDict(item) /\ \E i \in 1..Len(Entries(item)) :
                          /\ Entries(item)[i][2].t = "str"
                          /\ StrIn(query_lower, ToLower(Entries(item)[i][2].v))
    THEN "match" ELSE "nomatch"

_item_matches_query(item, query_lower) == ItemMatches(item, query_lower, {})

RECURSIVE SearchLoop(_, _, _, _)
\* the loop of search_in_text over data[i..]
SearchLoop(data, query_lower, i, results) ==
    IF i > Len(data) THEN [error |-> "", value |-> results]
    ELSE LET r == _item_matches_query(data[i], query_lower)
         IN  IF r = "RecursionError" THEN [error |-> r, value |-> <<>>]
             ELSE SearchLoop(data, query_lower, i + 1,
                             IF r = "match" THEN Append(results, data[i]) ELSE results)

\* search_in_text answering an empty query with no record
search_in_text_nonempty(data, query) ==
    IF query = "" THEN [error |-> "", value |-> <<>>]
    ELSE SearchLoop(data, ToLower(query), 1, <<>>)

search_in_text(data, query) ==
    IF query = "" THEN [error |-> "", value |-> data]
    ELSE SearchLoop(data, ToLower(query), 1, <<>>)

-----------------------------------------------------------------------------
(* Sample data *)

NestLevels == 10

InitialMetadata ==
    JDict(<< <<"created_at", JStr("2024-01-01T00:00:00Z")>>,
             <<"updated_at", JStr("2024-01-01T00:00:00Z")>>,
             <<"version", JStr("1.0.0")>> >>)

RECURSIVE create_nested_profile(_)
create_nested_profile(level) ==
    IF level = 1
    THEN << <<"data", JStr("Level " \o IntStr(level) \o " data")>>,
            <<"metadata", InitialMetadata>> >>
    ELSE << <<"level" \o IntStr(level), JDict(create_nested_profile(level - 1))>>,
            <<"metadata", InitialMetadata>> >>

-----------------------------------------------------------------------------
(* Callers of the pure helpers.  Each draws its arguments in its initial  *)
(* state and then calls the helper; the store plays no part.              *)

NoStore ==
    /\ heap = <<>>
    /\ SAMPLE_ORGANIZATIONS = <<>>
    /\ SAMPLE_USERS = <<>>
    /\ SAMPLE_PROFILES = <<>>
    /\ cache = {}
    /\ resp = [status |-> 0, body |-> JNone]
    /\ nreq = 0

\* all sequences over S of length at most n
SeqsUpTo(S, n) == UNION {[1..k -> S] : k \in 0..n}

(* paginate_data *)

MaxItems == 5

MaxPage == 4

MaxPerPage == 3

\* the list 0, 1, ..., n-1 : every element names its own 0-based position
Numbered(n) == [i \in 1..n |-> JInt(i - 1)]

InitPaginate ==
    /\ NoStore
    /\ pc = "start"
    /\ arg \in [data : {Numbered(n) : n \in 0..MaxItems},
                page : (0 - MaxPage)..MaxPage,
                per_page : (0 - 1)..MaxPerPage]
    /\ ret = <<>>

\* one call with the page number the caller supplied
PaginateCall ==
    /\ pc = "start"
    /\ ret' = <<paginate_data(arg.data, arg.page, arg.per_page)>>
    /\ pc' = "called"
    /\ UNCHANGED <<api, arg>>

\* a client reading the whole list: page 1, then the next page for as long
\* as the last answer's total_pages says there is one
PaginateWalk ==
    /\ pc \in {"start", "walk"}
    /\ LET r == paginate_data(arg.data, Len(ret) + 1, arg.per_page)
       IN  /\ ret' = Append(ret, r)
           /\ pc' = IF Len(ret) + 1 >= r.total_pages THEN "walked" ELSE "walk"
    /\ UNCHANGED <<api, arg>>

NextPaginate == PaginateCall \/ PaginateWalk

SpecPaginate == InitPaginate /\ [][NextPaginate]_vars

RECURSIVE ConcatItems(_)
\* the items of a sequence of pages, one page after the other
ConcatItems(pages) ==
    IF pages = <<>> THEN <<>> ELSE Head(pages).items \o ConcatItems(Tail(pages))

\* C7: for every sequence and every page size >= 1, the pages 1..total_pages
\* concatenated are the sequence itself, in order; every page but the last
\* holds exactly page-size items, the last holds between 1 and page-size
\* items, and total_pages is the ceiling of total / page size (0 for an
\* empty sequence).
C7_PagesPartition ==
    (pc = "walked" /\ arg.per_page >= 1) =>
        LET tp == ret[1].total_pages
            pages == SubSeq(ret, 1, tp)
        IN  /\ tp >= 0 /\ tp <= Len(ret)
            /\ \A k \in 1..Len(ret) : ret[k].total_pages = tp
            /\ tp * arg.per_page >= Len(arg.data)
            /\ (tp - 1) * arg.per_page < Len(arg.data)
            /\ (Len(arg.data) = 0 => tp = 0)
            /\ ConcatItems(pages) = arg.data
            /\ \A k \in 1..(tp - 1) : Len(pages[k].items) = arg.per_page
            /\ (tp >= 1 => /\ Len(pages[tp].items) >= 1
                           /\ Len(pages[tp].items) <= arg.per_page)

\* a walk over three pages or more whose last page is short
C7_Witness ==
    /\ pc = "walked"
    /\ arg.per_page >= 2
    /\ Len(ret) >= 3
    /\ Len(ret[Len(ret)].items) < arg.per_page

\* the 0-based positions the claimed page window selects
Window(total, page, size) ==
    {i \in 0..(total - 1) : (page - 1) * size <= i /\ i < page * size}

\* C8 (as claimed): for every integer page number, below 1 and above
\* total_pages included, and every page size >= 1, the items are exactly the
\* elements at the 0-based positions i with (page-1)*size <= i < page*size
\* and 0 <= i < total, in order, so a page outside 1..total_pages is empty;
\* total, page and per_page are echoed.
C8_WindowForEveryPage ==
    (pc = "called" /\ arg.per_page >= 1) =>
        LET r == ret[1]
            w == Window(Len(arg.data), arg.page, arg.per_page)
        IN  /\ r.error = ""
            /\ r.total = Len(arg.data)
            /\ r.page = arg.page
            /\ r.per_page = arg.per_page
            /\ Len(r.items) = Cardinality(w)
            /\ \A k \in 1..Len(r.items) :
                   /\ r.items[k].v \in w
                   /\ \A j \in 1..(k - 1) : r.items[j].v < r.items[k].v
            /\ ((arg.page < 1 \/ arg.page > r.total_pages) => r.items = <<>>)

-----------------------------------------------------------------------------
(* filter_data *)

MaxRecords == 2

MaxFilterKeys == 2

Meta(version) == JDict(<< <<"version", JStr(version)>> >>)

\* records of the shapes the collections hold: string, numeric, null,
\* boolean, list and nested-mapping fields, and fields that are absent
FilterRecords == {
    JDict(<< <<"id", JStr("ORG001")>>, <<"name", JStr("Test Org")>>,
             <<"count", JInt(10)>>, <<"metadata", Meta("1.0.0")>> >>),
    JDict(<< <<"id", JStr("ORG002")>>, <<"name", JStr("ACME")>>,
             <<"count", JInt(2)>>, <<"owner", JNone>>, <<"metadata", Meta("2.1")>> >>),
    JDict(<< <<"id", JStr("U1")>>, <<"metadata", JStr("flat 1.0")>>,
             <<"active", JBool(TRUE)>> >>),
    JDict(<< <<"level2", JDict(<< <<"level1", JDict(<< <<"data", JStr("Deep Test")>> >>)>>,
                                  <<"metadata", Meta("1.0.0")>> >>)>>,
             <<"tags", JList(<<JStr("Alpha"), JInt(7)>>)>>,
             <<"id", JStr("PROF001")>> >>) }

\* dotted filter keys, each with the path it names spelled out
DottedKeys == {
    [key |-> "metadata.version", segs |-> <<"metadata", "version">>],
    [key |-> "metadata.nokey", segs |-> <<"metadata", "nokey">>],
    [key |-> "metadata.version.x", segs |-> <<"metadata", "version", "x">>],
    [key |-> "level2.level1.data", segs |-> <<"level2", "level1", "data">>] }

\* the (key, expected value) pairs the filter mappings are built from:
\* hits and misses, in either letter case, on string, numeric, null,
\* boolean and mapping-valued fields, on absent fields and on dotted paths
FilterPairs == {
    <<"name", JStr("TEST")>>,
    <<"count", JStr("1")>>,
    <<"nokey", JStr("")>>,
    <<"owner", JStr("none")>>,
    <<"metadata", JInt(1)>>,
    <<"metadata.version", JStr("1.0")>>,
    <<"metadata.version", JStr("")>>,
    <<"metadata.nokey", JStr("")>>,
    <<"metadata.version.x", JStr("")>>,
    <<"level2.level1.data", JStr("DEEP")>> }

\* filter mappings: at most MaxFilterKeys pairs, no key twice
FilterMappings ==
    {JDict(f) : f \in {g \in SeqsUpTo(FilterPairs, MaxFilterKeys) :
                          \A i, j \in 1..Len(g) : i # j => g[i][1] # g[j][1]}}

InitFilter ==
    /\ NoStore
    /\ pc = "start"
    /\ arg \in [data : SeqsUpTo(FilterRecords, MaxRecords), filters : FilterMappings]
    /\ ret = <<>>

\* filtered = filter_data(data, filters)
FilterCall ==
    /\ pc = "start"
    /\ ret' = <<filter_data(arg.data, arg.filters)>>
    /\ pc' = "filtered"
    /\ UNCHANGED <<api, arg>>

\* the result filtered once more by the same mapping
FilterAgain ==
    /\ pc = "filtered"
    /\ ret[1].error = ""
    /\ ret' = Append(ret, filter_data(ret[1].value, arg.filters))
    /\ pc' = "refiltered"
    /\ UNCHANGED <<api, arg>>

NextFilter == FilterCall \/ FilterAgain

SpecFilter == InitFilter /\ [][NextFilter]_vars

\* needle occurs in hay
Contains(hay, needle) ==
    \E i \in 0..(Len(hay) - Len(needle)) : SubSeq(hay, i + 1, i + Len(needle)) = needle

IsDotted(key) == \E d \in DottedKeys : d.key = key

SegsOf(key) == (CHOOSE d \in DottedKeys : d.key = key).segs

RECURSIVE Reach(_, _)
\* <<the value at the end of the path>>, or <<>> when some segment is no key
\* of the mapping reached so far
Reach(val, segs) ==
    IF segs = <<>> THEN <<val>>
    ELSE IF val.t = "dict" /\ \E i \in 1..Len(val.v) : val.v[i][1] = Head(segs)
         THEN Reach(val.v[CHOOSE i \in 1..Len(val.v) : val.v[i][1] = Head(segs)][2], Tail(segs))
         ELSE <<>>

\* the text a plain key is compared against
PlainText(rec, key) ==
    IF \E i \in 1..Len(rec.v) : rec.v[i][1] = key
    THEN PyStr(rec.v[CHOOSE i \in 1..Len(rec.v) : rec.v[i][1] = key][2])
    ELSE ""

DottedMatches(rec, key, expected) ==
    /\ Reach(rec, SegsOf(key)) # <<>>
    /\ Contains(ToLower(PyStr(Reach(rec, SegsOf(key))[1])), ToLower(PyStr(expected)))

KeyMatches(rec, key, expected) ==
    IF IsDotted(key) THEN DottedMatches(rec, key, expected)
    ELSE Contains(ToLower(PlainText(rec, key)), ToLower(PyStr(expected)))

AllKeysMatch(rec, pairs) == \A i \in 1..Len(pairs) : KeyMatches(rec, pairs[i][1], pairs[i][2])

\* C4: filter_data returns exactly the records for which every filter key
\* matches (logical AND): a key matches when the lower-cased expected value
\* is a substring of the lower-cased stringified field value, whatever the
\* field's type, a plain field missing from the record counting as the
\* empty string; a record failing a single key is excluded.
C4_FilterKeepsExactlyAllMatching ==
    (pc = "filtered") =>
        /\ ret[1].error = ""
        /\ ret[1].value = SelectSeq(arg.data, LAMBDA rec : AllKeysMatch(rec, arg.filters.v))

\* two plain keys, one on a numeric field (10 contains "1") and one on a
\* missing field with the empty expected value; one record kept, one dropped
C4_Witness ==
    /\ pc = "filtered"
    /\ Len(arg.filters.v) = 2
    /\ \E i \in 1..2 : arg.filters.v[i] = <<"count", JStr("1")>>
    /\ \E i \in 1..2 : arg.filters.v[i] = <<"nokey", JStr("")>>
    /\ Len(arg.data) = 2
    /\ Len(ret[1].value) = 1
    /\ GetOr(ret[1].value[1].v, "count", JNone) = JInt(10)

\* C5: for dotted filter keys the path is walked segment by segment: a
\* record is kept only if every segment is a key of the mapping reached so
\* far and the stringified leaf contains the expected value whatever the
\* letter case; a record with an absent segment or a scalar on the way is
\* dropped for every expected value, the empty string included, without a
\* fault.
C5_DottedPathWalk ==
    (pc = "filtered" /\ arg.filters.v # <<>>
        /\ \A i \in 1..Len(arg.filters.v) : IsDotted(arg.filters.v[i][1])) =>
        /\ ret[1].error = ""
        /\ \A k \in 1..Len(arg.data) :
              (\E i \in 1..Len(arg.filters.v) :
                   Reach(arg.data[k], SegsOf(arg.filters.v[i][1])) = <<>>)
              => ~(\E j \in 1..Len(ret[1].value) : ret[1].value[j] = arg.data[k])
        /\ \A k \in 1..Len(arg.data) :
              (\E j \in 1..Len(ret[1].value) : ret[1].value[j] = arg.data[k])
              <=> \A i \in 1..Len(arg.filters.v) :
                     DottedMatches(arg.data[k], arg.filters.v[i][1], arg.filters.v[i][2])

\* the empty expected value on a dotted path: the record where the path ends
\* in a string is kept, the one where it runs into a scalar is dropped
C5_Witness ==
    /\ pc = "filtered"
    /\ arg.filters.v = << <<"metadata.version", JStr("")>> >>
    /\ Len(arg.data) = 2
    /\ GetOr(arg.data[1].v, "metadata", JNone).t = "dict"
    /\ GetOr(arg.data[2].v, "metadata", JNone).t = "str"
    /\ ret[1].value = <<arg.data[1]>>

RECURSIVE IsSubsequence(_, _)
\* sub is what is left of full after dropping some of its elements
IsSubsequence(sub, full) ==
    IF sub = <<>> THEN TRUE
    ELSE IF full = <<>> THEN FALSE
    ELSE IF Head(sub) = Head(full) THEN IsSubsequence(Tail(sub), Tail(full))
    ELSE IsSubsequence(sub, Tail(full))

\* C9: filter_data changes neither the input collection nor a record in it,
\* and the records it returns are in the relative order they have in the
\* input.
C9_FilterIsPure ==
    [][(pc = "start" /\ pc' = "filtered") =>
          /\ arg' = arg
          /\ store' = store
          /\ IsSubsequence(ret'[1].value, arg.data)]_vars

\* a call with a non-empty mapping that returned two different records
C9_Witness ==
    /\ pc = "filtered"
    /\ arg.filters.v # <<>>
    /\ Len(ret[1].value) = 2
    /\ ret[1].value[1] # ret[1].value[2]

\* C10: filter_data(filter_data(R, F), F) = filter_data(R, F): the same
\* records in the same order.
C10_FilterIdempotent ==
    (pc = "refiltered") => (ret[2].error = "" /\ ret[2].value = ret[1].value)

\* a second pass over a result that lost a record in the first pass and
\* kept one
C10_Witness ==
    /\ pc = "refiltered"
    /\ arg.filters.v # <<>>
    /\ Len(ret[1].value) >= 1
    /\ Len(ret[1].value) < Len(arg.data)

-----------------------------------------------------------------------------
(* search_in_text *)

MaxSearchRecords == 2

\* the records of FilterRecords and a generated profile, nested NestLevels deep
SearchRecords ==
    FilterRecords \cup {JDict(Append(create_nested_profile(NestLevels), <<"id", JStr("PROF001_001")>>))}

\* queries found in string values (in either letter case, at the top, in a
\* list, at the deepest level), found only in keys, in a number, in a
\* boolean or in a null, and found nowhere
SearchQueries == {"", "test", "ACME", "alpha", "LEVEL 1 DATA", "level2", "7", "true",
                  "none", "NonexistentXYZ"}

InitSearch ==
    /\ NoStore
    /\ pc = "start"
    /\ arg \in [data : SeqsUpTo(SearchRecords, MaxSearchRecords), query : SearchQueries]
    /\ ret = <<>>

\* results = search_in_text(data, query)
SearchCall ==
    /\ pc = "start"
    /\ ret' = <<search_in_text(arg.data, arg.query)>>
    /\ pc' = "searched"
    /\ UNCHANGED <<api, arg>>

\* the first page of the results, of the default size
SearchPaginate ==
    /\ pc = "searched"
    /\ ret[1].error = ""
    /\ ret' = Append(ret, paginate_data(ret[1].value, 1, 10))
    /\ pc' = "paged"
    /\ UNCHANGED <<api, arg>>

NextSearch == SearchCall \/ SearchPaginate

SpecSearch == InitSearch /\ [][NextSearch]_vars

RECURSIVE StringsIn(_)
\* the string values of a record: the string fields of a mapping and the
\* string elements of a sequence, at any depth; keys and other scalars are
\* not among them
StringsIn(val) ==
    CASE val.t = "str" -> {val.v}
      [] val.t = "dict" -> UNION {StringsIn(val.v[i][2]) : i \in 1..Len(val.v)}
      [] val.t = "list" -> UNION {StringsIn(val.v[i]) : i \in 1..Len(val.v)}
      [] OTHER -> {}

QueryOccurs(rec, q) == \E str \in StringsIn(rec) : Contains(ToLower(str), ToLower(q))

\* C6: for a non-empty q, search_in_text returns, in input order, exactly
\* the records in which some string value - a field of a mapping or an
\* element of a sequence, at any depth - contains q whatever the letter
\* case; numbers, booleans, null and keys never match, so a query found in
\* no string value gives an empty result with total 0.
C6_SearchFindsStringValues ==
    (pc \in {"searched", "paged"} /\ arg.query # "") =>
        /\ ret[1].error = ""
        /\ ret[1].value = SelectSeq(arg.data, LAMBDA rec : QueryOccurs(rec, arg.query))
        /\ (pc = "paged" /\ \A k \in 1..Len(arg.data) : ~QueryOccurs(arg.data[k], arg.query))
              => (ret[2].items = <<>> /\ ret[2].total = 0)

\* a query in capitals found at the deepest level of the generated profile
\* and not in the other record of the input
C6_Witness ==
    /\ pc = "paged"
    /\ arg.query = "LEVEL 1 DATA"
    /\ Len(arg.data) = 2
    /\ Len(ret[1].value) = 1
    /\ GetOr(ret[1].value[1].v, "id", JNone) = JStr("PROF001_001")
    /\ ret[2].total = 1

-----------------------------------------------------------------------------
(* search_in_text and filter_data together, as advanced_search applies them *)
(* to one collection, and in the opposite order                             *)

MaxComposeRecords == 2

MaxComposeKeys == 2

\* queries: none, found in several records, found in one, found in none
ComposeQueries == {"", "test", "ACME", "1.0", "NonexistentXYZ"}

\* (key, expected value) pairs on plain and dotted keys
ComposePairs == {
    <<"name", JStr("TEST")>>,
    <<"count", JStr("1")>>,
    <<"id", JStr("org")>>,
    <<"metadata.version", JStr("1.0")>> }

ComposeMappings ==
    {JDict(f) : f \in {g \in SeqsUpTo(ComposePairs, MaxComposeKeys) :
                          \A i, j \in 1..Len(g) : i # j => g[i][1] # g[j][1]}}

InitCompose ==
    /\ NoStore
    /\ pc = "start"
    /\ arg \in [data : SeqsUpTo(SearchRecords, MaxComposeRecords),
                query : ComposeQueries,
                filters : ComposeMappings]
    /\ ret = <<>>

\* org_data = search_in_text(org_data, query), skipped for an empty query
ComposeSearch ==
    /\ pc = "start"
    /\ ret' = <<IF arg.query # "" THEN search_in_text(arg.data, arg.query)
                ELSE [error |-> "", value |-> arg.data]>>
    /\ pc' = "searched"
    /\ UNCHANGED <<api, arg>>

\* org_results = filter_data(org_data, filters)
ComposeSearchFilter ==
    /\ pc = "searched"
    /\ ret[1].error = ""
    /\ ret' = Append(ret, filter_data(ret[1].value, arg.filters))
    /\ pc' = "search_filtered"
    /\ UNCHANGED <<api, arg>>

\* the same collection through filter_data first
ComposeFilter ==
    /\ pc = "search_filtered"
    /\ ret' = Append(ret, filter_data(arg.data, arg.filters))
    /\ pc' = "filtered"
    /\ UNCHANGED <<api, arg>>

\* and what it kept through search_in_text
ComposeFilterSearch ==
    /\ pc = "filtered"
    /\ ret[3].error = ""
    /\ ret' = Append(ret, search_in_text(ret[3].value, arg.query))
    /\ pc' = "filter_searched"
    /\ UNCHANGED <<api, arg>>

NextCompose == ComposeSearch \/ ComposeSearchFilter \/ ComposeFilter \/ ComposeFilterSearch

SpecCompose == InitCompose /\ [][NextCompose]_vars

\* C11: filter_data with an empty filter mapping and search_in_text with an
\* empty query each return all the input records in the input order.
C11_EmptyFilterAndEmptyQueryKeepAll ==
    /\ (pc = "filter_searched" /\ arg.query = "")
          => (ret[4].error = "" /\ ret[4].value = ret[3].value)
    /\ (pc \in {"filtered", "filter_searched"} /\ arg.filters.v = <<>>)
          => (ret[3].error = "" /\ ret[3].value = arg.data)

\* two different records through the empty mapping and then the empty query
C11_Witness ==
    /\ pc = "filter_searched"
    /\ arg.query = ""
    /\ arg.filters.v = <<>>
    /\ Len(arg.data) = 2
    /\ arg.data[1] # arg.data[2]
    /\ ret[4].value = arg.data

\* C12: for every collection, query and filter mapping, text search followed
\* by the filter engine returns the same records in the same order as the
\* filter engine followed by text search: exactly the records that satisfy
\* both the query and every filter key.
C12_SearchAndFilterCommute ==
    (pc = "filter_searched") =>
        /\ ret[2].error = "" /\ ret[4].error = ""
        /\ ret[2].value = ret[4].value
        /\ ret[2].value = SelectSeq(arg.data,
               LAMBDA rec : /\ (arg.query = "" \/ QueryOccurs(rec, arg.query))
                            /\ AllKeysMatch(rec, arg.filters.v))

\* a query and a mapping that each drop a different record of the input:
\* nothing is left in either order
C12_Witness ==
    /\ pc = "filter_searched"
    /\ arg.query = "ACME"
    /\ arg.filters.v = << <<"name", JStr("TEST")>> >>
    /\ Len(arg.data) = 2
    /\ Len(ret[1].value) = 1
    /\ Len(ret[3].value) = 1
    /\ ret[1].value # ret[3].value
    /\ ret[2].value = <<>>
    /\ ret[4].value = <<>>

-----------------------------------------------------------------------------
(* Validation *)

MaxNameLength == 100

MinIdDigits == 3

WhitespaceChars == " \t\n\r\f"

RECURSIVE IsWhitespace(_)
\* len(s.strip()) == 0
IsWhitespace(s) ==
    IF s = "" THEN TRUE
    ELSE StrIn(CharAt(s, 1), WhitespaceChars) /\ IsWhitespace(Tail(s))

\* every character of s is one of chars
AllIn(s, chars) == \A i \in 1..Len(s) : StrIn(CharAt(s, i), chars)

StartsWith(s, prefix) == Len(s) >= Len(prefix) /\ SubSeq(s, 1, Len(prefix)) = prefix

\* s without the one newline a trailing $ lets follow the match
BeforeFinalNewline(s) ==
    IF s # "" /\ CharAt(s, Len(s)) = "\n" THEN SubSeq(s, 1, Len(s) - 1) ELSE s

\* re.match(r'^<prefix>\d{3,}$', s)
MatchesIdToEnd(prefix, s) ==
    \E str \in {s, BeforeFinalNewline(s)} :
        /\ StartsWith(str, prefix)
        /\ Len(str) >= Len(prefix) + MinIdDigits
        /\ AllIn(SubSeq(str, Len(prefix) + 1, Len(str)), DigitChars)

\* re.match(r'^<prefix>\d{3,}', s) : nothing is asked of what follows
MatchesIdPrefix(prefix, s) ==
    /\ StartsWith(s, prefix)
    /\ Len(s) >= Len(prefix) + MinIdDigits
    /\ AllIn(SubSeq(s, Len(prefix) + 1, Len(prefix) + MinIdDigits), DigitChars)

EmailLocalChars == LowerAlpha \o UpperAlpha \o DigitChars \o "._%+-"

EmailDomainChars == LowerAlpha \o UpperAlpha \o DigitChars \o ".-"

EmailTldChars == LowerAlpha \o UpperAlpha

\* re.match(r'^[a-zA-Z0-9._%+-]+@[a-zA-Z0-9.-]+\.[a-zA-Z]{2,}$', s)
MatchesEmail(s) ==
    \E str \in {s, BeforeFinalNewline(s)} :
        \E at \in 2..Len(str) :
            /\ CharAt(str, at) = "@"
            /\ AllIn(SubSeq(str, 1, at - 1), EmailLocalChars)
            /\ \E dot \in (at + 2)..(Len(str) - 2) :
                   /\ CharAt(str, dot) = "."
                   /\ AllIn(SubSeq(str, at + 1, dot - 1), EmailDomainChars)
                   /\ AllIn(SubSeq(str, dot + 1, Len(str)), EmailTldChars)

Valid == [ok |-> TRUE, msg |-> ""]

Invalid(msg) == [ok |-> FALSE, msg |-> msg]

validate_json_payload(data) ==
    IF ~Truthy(data) THEN Invalid("Request body must contain valid JSON") ELSE Valid

\* the check of 'name' the three validators share
NameError(e) ==
    IF ~HasKey(e, "name") THEN ""
    ELSE LET name == Lookup(e, "name") IN
         IF name.t # "str" \/ IsWhitespace(name.v)
         THEN "Field 'name' must be a non-empty string"
         ELSE IF Len(name.v) > MaxNameLength
              THEN "Field 'name' must be 100 characters or less"
              ELSE ""

ValidTypes == <<"test", "enterprise", "startup", "nonprofit", "government">>

validate_organization_data(data, is_update) ==
    LET e == Entries(data) IN
    IF ~is_update /\ ~Truthy(GetOr(e, "name", JNone))
    THEN Invalid("Field 'name' is required and cannot be empty")
    ELSE IF ~is_update /\ ~Truthy(GetOr(e, "type", JNone))
    THEN Invalid("Field 'type' is required and cannot be empty")
    ELSE IF NameError(e) # "" THEN Invalid(NameError(e))
    ELSE IF HasKey(e, "type")
            /\ (Lookup(e, "type").t # "str"
                \/ ~\E i \in 1..Len(ValidTypes) : ValidTypes[i] = Lookup(e, "type").v)
    THEN Invalid("Field 'type' must be one of: test, enterprise, startup, nonprofit, government")
    ELSE IF HasKey(e, "id")
            /\ (Lookup(e, "id").t # "str" \/ ~MatchesIdToEnd("ORG", Lookup(e, "id").v))
    THEN Invalid("Field 'id' must follow format 'ORG###' (e.g., 'ORG001', 'ORG123')")
    ELSE Valid

\* validate_user_data checking the id before the email
validate_user_data_id_first(data, is_update, exclude_user_id) ==
    LET e == Entries(data) IN
    IF ~is_update /\ ~Truthy(GetOr(e, "name", JNone))
    THEN Invalid("Field 'name' is required and cannot be empty")
    ELSE IF ~is_update /\ ~Truthy(GetOr(e, "email", JNone))
    THEN Invalid("Field 'email' is required and cannot be empty")
    ELSE IF NameError(e) # "" THEN Invalid(NameError(e))
    ELSE IF HasKey(e, "id")
            /\ (Lookup(e, "id").t # "str" \/ ~MatchesIdPrefix("USER", Lookup(e, "id").v))
    THEN Invalid("Field 'id' must follow format 'USER###' (e.g., 'USER001', 'USER123')")
    ELSE IF HasKey(e, "email")
            /\ (Lookup(e, "email").t # "str" \/ ~MatchesEmail(Lookup(e, "email").v))
    THEN Invalid("Field 'email' must be a valid email address")
    ELSE IF HasKey(e, "email")
            /\ \E i \in 1..Len(SAMPLE_USERS) :
                   /\ Lookup(heap[SAMPLE_USERS[i]], "email") = Lookup(e, "email")
                   /\ Lookup(heap[SAMPLE_USERS[i]], "id") # exclude_user_id
    THEN Invalid("Email '" \o Lookup(e, "email").v \o "' is already in use by another user")
    ELSE IF HasKey(e, "organization_id") /\ Truthy(Lookup(e, "organization_id"))
            /\ ~\E i \in 1..Len(SAMPLE_ORGANIZATIONS) :
                   Lookup(heap[SAMPLE_ORGANIZATIONS[i]], "id") = Lookup(e, "organization_id")
    THEN Invalid("Organization with ID '" \o PyStr(Lookup(e, "organization_id"))
                 \o "' does not exist")
    ELSE Valid

\* exclude_user_id is a Python value: None when the caller gives none
validate_user_data(data, is_update, exclude_user_id) ==
    LET e == Entries(data) IN
    IF ~is_update /\ ~Truthy(GetOr(e, "name", JNone))
    THEN Invalid("Field 'name' is required and cannot be empty")
    ELSE IF ~is_update /\ ~Truthy(GetOr(e, "email", JNone))
    THEN Invalid("Field 'email' is required and cannot be empty")
    ELSE IF NameError(e) # "" THEN Invalid(NameError(e))
    ELSE IF HasKey(e, "email")
            /\ (Lookup(e, "email").t # "str" \/ ~MatchesEmail(Lookup(e, "email").v))
    THEN Invalid("Field 'email' must be a valid email address")
    ELSE IF HasKey(e, "email")
            /\ \E i \in 1..Len(SAMPLE_USERS) :
                   /\ Lookup(heap[SAMPLE_USERS[i]], "email") = Lookup(e, "email")
                   /\ Lookup(heap[SAMPLE_USERS[i]], "id") # exclude_user_id
    THEN Invalid("Email '" \o Lookup(e, "email").v \o "' is already in use by another user")
    ELSE IF HasKey(e, "organization_id") /\ Truthy(Lookup(e, "organization_id"))
            /\ ~\E i \in 1..Len(SAMPLE_ORGANIZATIONS) :
                   Lookup(heap[SAMPLE_ORGANIZATIONS[i]], "id") = Lookup(e, "organization_id")
    THEN Invalid("Organization with ID '" \o PyStr(Lookup(e, "organization_id"))
                 \o "' does not exist")
    ELSE IF HasKey(e, "id")
            /\ (Lookup(e, "id").t # "str" \/ ~MatchesIdPrefix("USER", Lookup(e, "id").v))
    THEN Invalid("Field 'id' must follow format 'USER###' (e.g., 'USER001', 'USER123')")
    ELSE Valid

validate_profile_data(data, is_update) ==
    LET e == Entries(data) IN
    IF ~is_update /\ ~Truthy(GetOr(e, "name", JNone))
    THEN Invalid("Field 'name' is required and cannot be empty")
    ELSE IF NameError(e) # "" THEN Invalid(NameError(e))
    ELSE IF HasKey(e, "settings") /\ ~IsDict(Lookup(e, "settings"))
    THEN Invalid("Field 'settings' must be a valid JSON object")
    ELSE IF HasKey(e, "preferences") /\ ~IsDict(Lookup(e, "preferences"))
    THEN Invalid("Field 'preferences' must be a valid JSON object")
    ELSE IF HasKey(e, "id")
            /\ (Lookup(e, "id").t # "str" \/ ~MatchesIdPrefix("PROF", Lookup(e, "id").v))
    THEN Invalid("Field 'id' must follow format 'PROF###' (e.g., 'PROF001', 'PROF123')")
    ELSE Valid

\* str.upper() on one character
UpperChar(c) ==
    IF \E i \in 1..Len(LowerAlpha) : CharAt(LowerAlpha, i) = c
    THEN CharAt(UpperAlpha, CHOOSE i \in 1..Len(LowerAlpha) : CharAt(LowerAlpha, i) = c)
    ELSE c

\* str.capitalize()
Capitalize(s) == IF s = "" THEN "" ELSE UpperChar(CharAt(s, 1)) \o ToLower(Tail(s))

\* the collection check_duplicate_id looks an entity type up in
Collection(entity_type) ==
    CASE entity_type = "organization" -> SAMPLE_ORGANIZATIONS
      [] entity_type = "user" -> SAMPLE_USERS
      [] entity_type = "profile" -> SAMPLE_PROFILES

\* check_duplicate_id finding no id taken
check_duplicate_id_never(entity_type, entity_id, exclude_id) == Valid

\* entity_id and exclude_id are Python values
check_duplicate_id(entity_type, entity_id, exclude_id) ==
    IF entity_type \notin {"organization", "user", "profile"}
    THEN Invalid("Invalid entity type: " \o entity_type)
    ELSE IF \E i \in 1..Len(Collection(entity_type)) :
                /\ Lookup(heap[Collection(entity_type)[i]], "id") = entity_id
                /\ Lookup(heap[Collection(entity_type)[i]], "id") # exclude_id
         THEN Invalid(Capitalize(entity_type) \o " with ID '" \o PyStr(entity_id)
                      \o "' already exists")
         ELSE Valid

-----------------------------------------------------------------------------
(* The store at start-up *)

InitOrgs == 2

InitUsersPerOrg == 1

\* a heap address for every record create_sample_data builds: those of
\* organization i are its own, then a profile and a user for every j
BlockSize == 1 + 2 * InitUsersPerOrg

OrgAddr(i) == (i - 1) * BlockSize + 1

ProfileAddr(i, j) == OrgAddr(i) + 2 * j - 1

UserAddr(i, j) == OrgAddr(i) + 2 * j

SampleOrganization(i) ==
    << <<"id", JStr("ORG" \o Format03d(i))>>,
       <<"name", JStr("Test Organization " \o IntStr(i))>>,
       <<"type", JStr("test")>>,
       <<"metadata", InitialMetadata>> >>

SampleProfile(i, j) ==
    Append(create_nested_profile(NestLevels),
           <<"id", JStr("PROF" \o Format03d(i) \o "_" \o Format03d(j))>>)

SampleUser(i, j) ==
    << <<"id", JStr("USER" \o Format03d(i) \o "_" \o Format03d(j))>>,
       <<"name", JStr("Test User " \o IntStr(i) \o "-" \o IntStr(j))>>,
       <<"email", JStr("test" \o IntStr(i) \o "_" \o IntStr(j) \o "@example.com")>>,
       <<"organization_id", JStr("ORG" \o Format03d(i))>>,
       <<"profile_id", JStr("PROF" \o Format03d(i) \o "_" \o Format03d(j))>>,
       <<"metadata", InitialMetadata>> >>

create_sample_data ==
    [heap |-> [a \in 1..(InitOrgs * BlockSize) |->
                  LET i == ((a - 1) \div BlockSize) + 1
                      k == (a - 1) % BlockSize
                  IN  IF k = 0 THEN SampleOrganization(i)
                      ELSE IF k % 2 = 1 THEN SampleProfile(i, (k + 1) \div 2)
                      ELSE SampleUser(i, k \div 2)],
     organizations |-> [i \in 1..InitOrgs |-> OrgAddr(i)],
     users |-> [n \in 1..(InitOrgs * InitUsersPerOrg) |->
                   UserAddr(((n - 1) \div InitUsersPerOrg) + 1, ((n - 1) % InitUsersPerOrg) + 1)],
     profiles |-> [n \in 1..(InitOrgs * InitUsersPerOrg) |->
                   ProfileAddr(((n - 1) \div InitUsersPerOrg) + 1, ((n - 1) % InitUsersPerOrg) + 1)]]

Init ==
    /\ heap = create_sample_data.heap
    /\ SAMPLE_ORGANIZATIONS = create_sample_data.organizations
    /\ SAMPLE_USERS = create_sample_data.users
    /\ SAMPLE_PROFILES = create_sample_data.profiles
    /\ cache = {}
    /\ resp = [status |-> 0, body |-> JNone]
    /\ nreq = 0
    /\ pc = "api"
    /\ arg = <<>>
    /\ ret = <<>>

-----------------------------------------------------------------------------
(* The entity validators, called on the store as it is at start-up *)

RECURSIVE Repeat(_, _)
Repeat(str, n) == IF n = 0 THEN "" ELSE str \o Repeat(str, n - 1)

\* a field of a payload: absent, or present with one of the values
Optional(key, values) == {<<>>} \cup {<< <<key, val>> >> : val \in values}

\* names: empty, plain, of the greatest length allowed, one character
\* longer, as long in blanks only, and a number
Names == {JStr(""), JStr("Ann"), JStr(Repeat("n", MaxNameLength)),
          JStr(Repeat("n", MaxNameLength + 1)), JStr(Repeat(" ", MaxNameLength + 1)), JInt(5)}

Types == {JStr(""), JStr("startup"), JStr("bogus"), JInt(1)}

OrganizationIds == {JStr("ORG123"), JStr("ORG12"), JStr("ORG1234"), JStr("ORG123x"),
                    JStr("ORG123\n"), JStr("XORG123"), JStr("org123"), JInt(123)}

\* emails: empty, well formed and free, malformed, with a top-level domain
\* of one letter, the one of a sample user, and a number
Emails == {JStr(""), JStr("ann@example.com"), JStr("not-an-email"), JStr("a@b.c"),
           JStr("test1_1@example.com"), JInt(5)}

OrganizationRefs == {JNone, JStr(""), JStr("ORG001"), JStr("ORG404")}

UserIdValues == {JStr("USER123"), JStr("USER12"), JStr("USER123abc"), JStr("USER001_001"), JInt(123)}

Objects == {JDict(<< <<"theme", JStr("dark")>> >>), JStr("dark")}

ProfileIdValues == {JStr("PROF123"), JStr("PROF12"), JStr("PROF123 x"), JNone}

OrganizationData ==
    {JDict(n \o t \o i) : n \in Optional("name", Names), t \in Optional("type", Types),
                          i \in Optional("id", OrganizationIds)}

UserData ==
    {JDict(n \o m \o o \o i) : n \in Optional("name", Names), m \in Optional("email", Emails),
                               o \in Optional("organization_id", OrganizationRefs),
                               i \in Optional("id", UserIdValues)}

ProfileData ==
    {JDict(n \o c \o p \o i) : n \in Optional("name", Names), c \in Optional("settings", Objects),
                               p \in Optional("preferences", Objects),
                               i \in Optional("id", ProfileIdValues)}

\* the arguments of one call: exclude is the exclude_user_id of
\* validate_user_data
InitValidate ==
    /\ heap = create_sample_data.heap
    /\ SAMPLE_ORGANIZATIONS = create_sample_data.organizations
    /\ SAMPLE_USERS = create_sample_data.users
    /\ SAMPLE_PROFILES = create_sample_data.profiles
    /\ cache = {}
    /\ resp = [status |-> 0, body |-> JNone]
    /\ nreq = 0
    /\ pc = "start"
    /\ arg \in ([entity : {"organization"}, data : OrganizationData, is_update : BOOLEAN,
                 exclude : {JNone}]
                \cup [entity : {"user"}, data : UserData, is_update : {FALSE}, exclude : {JNone}]
                \cup [entity : {"user"}, data : UserData, is_update : {TRUE},
                      exclude : {JNone, JStr("USER001_001")}]
                \cup [entity : {"profile"}, data : ProfileData, is_update : BOOLEAN,
                      exclude : {JNone}])
    /\ ret = <<>>

ValidateOrganization ==
    /\ pc = "start"
    /\ arg.entity = "organization"
    /\ ret' = <<validate_organization_data(arg.data, arg.is_update)>>
    /\ pc' = "validated"
    /\ UNCHANGED <<api, arg>>

ValidateUser ==
    /\ pc = "start"
    /\ arg.entity = "user"
    /\ ret' = <<validate_user_data(arg.data, arg.is_update, arg.exclude)>>
    /\ pc' = "validated"
    /\ UNCHANGED <<api, arg>>

ValidateProfile ==
    /\ pc = "start"
    /\ arg.entity = "profile"
    /\ ret' = <<validate_profile_data(arg.data, arg.is_update)>>
    /\ pc' = "validated"
    /\ UNCHANGED <<api, arg>>

NextValidate == ValidateOrganization \/ ValidateUser \/ ValidateProfile

SpecValidate == InitValidate /\ [][NextValidate]_vars

\* a rule of a validator: whether the payload breaks it, and its message
Rule(broken, msg) == [broken |-> broken, msg |-> msg]

Present(key) == \E k \in 1..Len(arg.data.v) : arg.data.v[k][1] = key

\* the value of a field; None when the field is absent
Value(key) ==
    IF Present(key) THEN arg.data.v[CHOOSE k \in 1..Len(arg.data.v) : arg.data.v[k][1] = key][2]
    ELSE JNone

\* None, the empty string, 0 and the empty containers
Empty(val) == val \in {JNone, JStr(""), JInt(0), JBool(FALSE), JList(<<>>), JDict(<<>>)}

Blank(str) == \A k \in 1..Len(str) : SubSeq(str, k, k) \in {" ", "\t", "\n", "\r", "\f"}

Required(key) ==
    Rule(~arg.is_update /\ Empty(Value(key)),
         "Field '" \o key \o "' is required and cannot be empty")

NameIsText ==
    Rule(Present("name") /\ (Value("name").t # "str" \/ Blank(Value("name").v)),
         "Field 'name' must be a non-empty string")

NameIsShort ==
    Rule(Present("name") /\ Value("name").t = "str" /\ Len(Value("name").v) > 100,
         "Field 'name' must be 100 characters or less")

TypeIsKnown ==
    Rule(Present("type")
         /\ Value("type") \notin {JStr("test"), JStr("enterprise"), JStr("startup"),
                                  JStr("nonprofit"), JStr("government")},
         "Field 'type' must be one of: test, enterprise, startup, nonprofit, government")

EmailIsWellFormed ==
    Rule(Present("email") /\ (Value("email").t # "str" \/ ~MatchesEmail(Value("email").v)),
         "Field 'email' must be a valid email address")

EmailIsFree ==
    Rule(Present("email")
         /\ \E a \in {SAMPLE_USERS[k] : k \in 1..Len(SAMPLE_USERS)} :
                /\ Lookup(heap[a], "email") = Value("email")
                /\ Lookup(heap[a], "id") # arg.exclude,
         "Email '" \o PyStr(Value("email")) \o "' is already in use by another user")

OrganizationExists ==
    Rule(Present("organization_id") /\ ~Empty(Value("organization_id"))
         /\ \A a \in {SAMPLE_ORGANIZATIONS[k] : k \in 1..Len(SAMPLE_ORGANIZATIONS)} :
                Lookup(heap[a], "id") # Value("organization_id"),
         "Organization with ID '" \o PyStr(Value("organization_id")) \o "' does not exist")

IsObject(key) ==
    Rule(Present(key) /\ Value(key).t # "dict",
         "Field '" \o key \o "' must be a valid JSON object")

\* the entity's prefix followed by three digits or more and nothing else
ExactId(prefix, val) ==
    /\ val.t = "str"
    /\ Len(val.v) >= Len(prefix) + 3
    /\ SubSeq(val.v, 1, Len(prefix)) = prefix
    /\ \A k \in (Len(prefix) + 1)..Len(val.v) :
           SubSeq(val.v, k, k) \in {"0", "1", "2", "3", "4", "5", "6", "7", "8", "9"}

IdMessage(prefix) ==
    "Field 'id' must follow format '" \o prefix \o "###' (e.g., '" \o prefix \o "001', '"
    \o prefix \o "123')"

\* the id rule as the validators apply it
IdIsAccepted(prefix) ==
    Rule(Present("id")
         /\ (Value("id").t # "str"
             \/ IF prefix = "ORG" THEN ~MatchesIdToEnd(prefix, Value("id").v)
                ELSE ~MatchesIdPrefix(prefix, Value("id").v)),
         IdMessage(prefix))

Prefix == CASE arg.entity = "organization" -> "ORG"
            [] arg.entity = "user" -> "USER"
            [] arg.entity = "profile" -> "PROF"

\* the rules of the entity validated, in the order they are to be reported
Rules ==
    CASE arg.entity = "organization" ->
            <<Required("name"), Required("type"), NameIsText, NameIsShort, TypeIsKnown,
              IdIsAccepted("ORG")>>
      [] arg.entity = "user" ->
            <<Required("name"), Required("email"), NameIsText, NameIsShort, EmailIsWellFormed,
              EmailIsFree, OrganizationExists, IdIsAccepted("USER")>>
      [] arg.entity = "profile" ->
            <<Required("name"), NameIsText, NameIsShort, IsObject("settings"),
              IsObject("preferences"), IdIsAccepted("PROF")>>

BrokenRules == {k \in 1..Len(Rules) : Rules[k].broken}

\* C19: each entity validator returns (true, none) iff the payload breaks
\* no rule, and otherwise (false, message) with the message of the first
\* broken rule in the fixed order; for a user on creation: name required,
\* email required, name a non-empty string, name of at most 100
\* characters, email format, email not used by another user,
\* organization_id naming an organization, id format.
C19_FirstBrokenRuleReported ==
    (pc = "validated") =>
        /\ ret[1].ok <=> BrokenRules = {}
        /\ ~ret[1].ok =>
              ret[1].msg = Rules[CHOOSE k \in BrokenRules : \A j \in BrokenRules : k <= j].msg

\* a user payload on creation that breaks the last four rules at once: the
\* email format is the one reported
C19_Witness ==
    /\ pc = "validated"
    /\ arg.entity = "user"
    /\ ~arg.is_update
    /\ Value("name") = JStr("Ann")
    /\ Value("email") = JStr("not-an-email")
    /\ Value("organization_id") = JStr("ORG404")
    /\ Value("id") = JStr("USER12")
    /\ Cardinality(BrokenRules) = 3
    /\ ret[1] = Invalid("Field 'email' must be a valid email address")

\* C20: a validator accepts a payload with an id only if the id is the
\* entity's prefix followed by at least three digits and nothing else; a
\* payload that breaks no other rule and has any other string, or a
\* non-string, for its id is refused with the id-format message.
C20_IdIsPrefixAndDigitsOnly ==
    (pc = "validated" /\ Present("id")) =>
        /\ ret[1].ok => ExactId(Prefix, Value("id"))
        /\ (~ExactId(Prefix, Value("id")) /\ \A k \in 1..(Len(Rules) - 1) : ~Rules[k].broken)
              => ret[1] = Invalid(IdMessage(Prefix))

-----------------------------------------------------------------------------
(* Responses *)

RECURSIVE Circular(_, _, _)
\* json.dumps meets, below val, a dict that is still being written
Circular(h, val, path) ==
    CASE val.t = "ref" ->
            \/ val.v \in path
            \/ \E i \in 1..Len(h[val.v]) : Circular(h, h[val.v][i][2], path \cup {val.v})
      [] val.t = "dict" -> \E i \in 1..Len(val.v) : Circular(h, val.v[i][2], path)
      [] val.t = "list" -> \E i \in 1..Len(val.v) : Circular(h, val.v[i], path)
      [] OTHER -> FALSE

RECURSIVE Snapshot(_, _)
\* the JSON text of val, read back: the objects it refers to written out
Snapshot(h, val) ==
    CASE val.t = "ref" ->
            JDict([i \in 1..Len(h[val.v]) |-> <<h[val.v][i][1], Snapshot(h, h[val.v][i][2])>>])
      [] val.t = "dict" ->
            JDict([i \in 1..Len(val.v) |-> <<val.v[i][1], Snapshot(h, val.v[i][2])>>])
      [] val.t = "list" -> JList([i \in 1..Len(val.v) |-> Snapshot(h, val.v[i])])
      [] OTHER -> val

\* the request ends in an exception no handler code catches
ServerError(exception) == [status |-> 500, body |-> JStr(exception)]

\* jsonify(val), status : h is the heap at the time of the call
jsonify(h, val, status) ==
    IF Circular(h, val, {}) THEN ServerError("ValueError: Circular reference detected")
    ELSE [status |-> status, body |-> Snapshot(h, val)]

\* jsonify({"error": msg}), status
ErrorResponse(msg, status) == [status |-> status, body |-> JDict(<< <<"error", JStr(msg)>> >>)]

\* the handler loops for ever and the request gets no response
NoResponse == [status |-> 0, body |-> JStr("the request does not return")]

-----------------------------------------------------------------------------
(* Request handlers: the view functions, which require_token calls for a  *)
(* request that carries the configured bearer token.  Requests are handled *)
(* one at a time, each handler running to its end.  The rate limits (20    *)
(* requests a minute at the least) are not reached within MaxRequests      *)
(* requests.  The views wrapped by cache.cached (a single organization,    *)
(* advanced search) are answered from the cache when it holds an answer to *)
(* the request that has not timed out, and by the view otherwise.          *)

MaxRequests == 2

\* the server takes the next request
Serving == pc = "api" /\ resp # NoResponse /\ nreq < MaxRequests

BEARER_TOKEN == "ft_test_api_2024"

\* require_token comparing no token: any header that starts with 'Bearer '
\* lets the request through
token_error_any_bearer(auth_header) ==
    IF ~Truthy(auth_header) \/ ~StartsWith(auth_header.v, "Bearer ")
    THEN "Missing or invalid Authorization header"
    ELSE ""

\* the error require_token answers a request with, given its Authorization
\* header (None when the request has none); "" when it calls the view
token_error(auth_header) ==
    IF ~Truthy(auth_header) \/ ~StartsWith(auth_header.v, "Bearer ")
    THEN "Missing or invalid Authorization header"
    ELSE IF Split(auth_header.v, " ")[2] # BEARER_TOKEN
    THEN "Invalid token"
    ELSE ""

\* the 401 answer of require_token
Unauthorized(msg) ==
    /\ Serving
    /\ nreq' = nreq + 1
    /\ resp' = ErrorResponse(msg, 401)
    /\ UNCHANGED <<store, cache, caller>>

\* datetime.utcnow().isoformat()
UtcNow == {"2024-06-01T12:00:00.000001"}

NewMetadata(now) ==
    JDict(<< <<"created_at", JStr(now)>>, <<"updated_at", JStr(now)>>,
             <<"version", JStr("1.0.0")>> >>)

\* next(... for x in coll if x["id"] == id, None) : the address, or 0
FindById(coll, id) ==
    IF \E i \in 1..Len(coll) : Lookup(heap[coll[i]], "id") = JStr(id)
    THEN coll[CHOOSE i \in 1..Len(coll) :
                 /\ Lookup(heap[coll[i]], "id") = JStr(id)
                 /\ \A j \in 1..(i - 1) : Lookup(heap[coll[j]], "id") # JStr(id)]
    ELSE 0

\* any(x["id"] == id for x in coll)
IdTaken(coll, id) == \E i \in 1..Len(coll) : Lookup(heap[coll[i]], "id") = JStr(id)

\* the generated id: <prefix><len+1>, replaced by <prefix><len+2> for as
\* long as it is taken; "" when that loop never ends
AutoId(prefix, coll) ==
    IF ~IdTaken(coll, prefix \o Format03d(Len(coll) + 1))
    THEN prefix \o Format03d(Len(coll) + 1)
    ELSE IF ~IdTaken(coll, prefix \o Format03d(Len(coll) + 2))
         THEN prefix \o Format03d(Len(coll) + 2)
         ELSE ""

\* list.remove(x)
Remove(coll, a) == SelectSeq(coll, LAMBDA b : b # a)

\* cache.get(key): the entry stored under key.  Every entry is stored with
\* a timeout of 60 seconds, so a request that finds one may also come after
\* it has timed out and then gets none.
cache_get(key) == {c \in cache : c.key = key}

\* cache.set(key, value, timeout=60) on the entries the cache holds
cache_set(entries, key, value) ==
    {c \in entries : c.key # key} \cup {[key |-> key, value |-> value]}

\* what cache.cached leaves in the cache after the view has run: the answer
\* under the key of the request, and nothing new when the view raised
cached(entries, key, response) ==
    IF response.status = 500 THEN entries ELSE cache_set(entries, key, response)

\* the key cache.cached(query_string=True) gives a request of any method
\* for a single organization: request.path and the digest of the sorted
\* query parameters, of which there are none; the digest is modelled by the
\* text it digests
organization_key(org_id) == "/api/organizations/" \o org_id \o "()"

\* POST /api/organizations
PostOrganizations(data, now) ==
    /\ Serving
    /\ nreq' = nreq + 1
    /\ cache' = {}
    /\ UNCHANGED <<SAMPLE_USERS, SAMPLE_PROFILES, caller>>
    /\ LET provided_id == GetOr(Entries(data), "id", JNone)
           org_id == IF Truthy(provided_id) THEN provided_id.v
                     ELSE AutoId("ORG", SAMPLE_ORGANIZATIONS)
           new_org == << <<"id", JStr(org_id)>>,
                         <<"name", Lookup(Entries(data), "name")>>,
                         <<"type", Lookup(Entries(data), "type")>>,
                         <<"metadata", NewMetadata(now)>> >>
       IN  IF ~validate_json_payload(data).ok
           THEN /\ resp' = ErrorResponse(validate_json_payload(data).msg, 400)
                /\ UNCHANGED <<heap, SAMPLE_ORGANIZATIONS>>
           ELSE IF ~IsDict(data)
           THEN /\ resp' = ServerError("AttributeError")
                /\ UNCHANGED <<heap, SAMPLE_ORGANIZATIONS>>
           ELSE IF ~validate_organization_data(data, FALSE).ok
           THEN /\ resp' = ErrorResponse(validate_organization_data(data, FALSE).msg, 400)
                /\ UNCHANGED <<heap, SAMPLE_ORGANIZATIONS>>
           ELSE IF Truthy(provided_id) /\ ~check_duplicate_id("organization", provided_id, JNone).ok
           THEN /\ resp' = ErrorResponse(check_duplicate_id("organization", provided_id, JNone).msg, 409)
                /\ UNCHANGED <<heap, SAMPLE_ORGANIZATIONS>>
           ELSE IF org_id = ""
           THEN /\ resp' = NoResponse
                /\ UNCHANGED <<heap, SAMPLE_ORGANIZATIONS>>
           ELSE /\ heap' = Append(heap, new_org)
                /\ SAMPLE_ORGANIZATIONS' = Append(SAMPLE_ORGANIZATIONS, Len(heap) + 1)
                /\ resp' = jsonify(heap', JRef(Len(heap) + 1), 201)

\* GET, PUT, DELETE /api/organizations/<org_id>: the answer cache.cached
\* holds for the path, or the view's, which cache.cached then stores
GetOrganization(org_id) ==
    /\ Serving
    /\ nreq' = nreq + 1
    /\ UNCHANGED <<SAMPLE_ORGANIZATIONS, SAMPLE_USERS, SAMPLE_PROFILES, caller>>
    /\ \/ \E c \in cache_get(organization_key(org_id)) :
             /\ resp' = c.value
             /\ UNCHANGED <<heap, cache>>
       \/ LET org == FindById(SAMPLE_ORGANIZATIONS, org_id)
              org_users == SelectSeq(SAMPLE_USERS,
                                     LAMBDA a : Lookup(heap[a], "organization_id") = JStr(org_id))
          IN  IF org = 0
              THEN /\ resp' = ErrorResponse("Organization not found", 404)
                   /\ UNCHANGED heap
                   /\ cache' = cache_set(cache, organization_key(org_id), resp')
              ELSE /\ heap' = [heap EXCEPT ![org] =
                                  SetKey(SetKey(@, "users", JList([i \in 1..Len(org_users) |-> JRef(org_users[i])])),
                                         "total_users", JInt(Len(org_users)))]
                   /\ resp' = jsonify(heap', JRef(org), 200)
                   /\ cache' = cached(cache, organization_key(org_id), resp')

PutOrganization(org_id, data, now) ==
    /\ Serving
    /\ nreq' = nreq + 1
    /\ UNCHANGED <<SAMPLE_ORGANIZATIONS, SAMPLE_USERS, SAMPLE_PROFILES, caller>>
    /\ \/ \E c \in cache_get(organization_key(org_id)) :
             /\ resp' = c.value
             /\ UNCHANGED <<heap, cache>>
       \/ LET org == FindById(SAMPLE_ORGANIZATIONS, org_id)
          IN  IF org = 0
              THEN /\ resp' = ErrorResponse("Organization not found", 404)
                   /\ UNCHANGED heap
                   /\ cache' = cache_set(cache, organization_key(org_id), resp')
              ELSE IF ~IsDict(data)
              THEN /\ resp' = ServerError("AttributeError")
                   /\ UNCHANGED heap
                   /\ cache' = {}
              ELSE /\ heap' = [heap EXCEPT ![org] = UpdateAll(@,
                          << <<"name", GetOr(Entries(data), "name", Lookup(@, "name"))>>,
                             <<"type", GetOr(Entries(data), "type", Lookup(@, "type"))>>,
                             <<"metadata", JDict(SetKey(Entries(Lookup(@, "metadata")),
                                                        "updated_at", JStr(now)))>> >>)]
                   /\ resp' = jsonify(heap', JRef(org), 200)
                   /\ cache' = cached({}, organization_key(org_id), resp')

\* a DELETE that also removes the users of the organization
DeleteOrganization_cascade(org_id) ==
    /\ Serving
    /\ nreq' = nreq + 1
    /\ UNCHANGED <<heap, SAMPLE_PROFILES, caller>>
    /\ \/ \E c \in cache_get(organization_key(org_id)) :
             /\ resp' = c.value
             /\ UNCHANGED <<SAMPLE_ORGANIZATIONS, SAMPLE_USERS, cache>>
       \/ LET org == FindById(SAMPLE_ORGANIZATIONS, org_id)
          IN  IF org = 0
              THEN /\ resp' = ErrorResponse("Organization not found", 404)
                   /\ UNCHANGED <<SAMPLE_ORGANIZATIONS, SAMPLE_USERS>>
                   /\ cache' = cache_set(cache, organization_key(org_id), resp')
              ELSE /\ SAMPLE_ORGANIZATIONS' = Remove(SAMPLE_ORGANIZATIONS, org)
                   /\ SAMPLE_USERS' = SelectSeq(SAMPLE_USERS, LAMBDA u :
                                          Lookup(heap[u], "organization_id") # JStr(org_id))
                   /\ resp' = [status |-> 204, body |-> JStr("")]
                   /\ cache' = cache_set({}, organization_key(org_id), resp')

DeleteOrganization(org_id) ==
    /\ Serving
    /\ nreq' = nreq + 1
    /\ UNCHANGED <<heap, SAMPLE_USERS, SAMPLE_PROFILES, caller>>
    /\ \/ \E c \in cache_get(organization_key(org_id)) :
             /\ resp' = c.value
             /\ UNCHANGED <<SAMPLE_ORGANIZATIONS, cache>>
       \/ LET org == FindById(SAMPLE_ORGANIZATIONS, org_id)
          IN  IF org = 0
              THEN /\ resp' = ErrorResponse("Organization not found", 404)
                   /\ UNCHANGED SAMPLE_ORGANIZATIONS
                   /\ cache' = cache_set(cache, organization_key(org_id), resp')
              ELSE /\ SAMPLE_ORGANIZATIONS' = Remove(SAMPLE_ORGANIZATIONS, org)
                   /\ resp' = [status |-> 204, body |-> JStr("")]
                   /\ cache' = cache_set({}, organization_key(org_id), resp')

-----------------------------------------------------------------------------
(* The list endpoints and their cache *)

\* the characters of the query parameters, in code point order
Ascii == " !#$%&'()*+,-./0123456789:;<=>?@ABCDEFGHIJKLMNOPQRSTUVWXYZ[]^_abcdefghijklmnopqrstuvwxyz{|}~"

RECURSIVE StrLess(_, _)
\* a < b on strings
StrLess(a, b) ==
    IF b = "" THEN FALSE
    ELSE IF a = "" THEN TRUE
    ELSE IF CharAt(a, 1) = CharAt(b, 1) THEN StrLess(Tail(a), Tail(b))
    ELSE Find(Ascii, CharAt(a, 1)) < Find(Ascii, CharAt(b, 1))

\* (k1, v1) < (k2, v2) on pairs of strings
PairLess(p, q) == StrLess(p[1], q[1]) \/ (p[1] = q[1] /\ StrLess(p[2].v, q[2].v))

RECURSIVE Sorted(_)
\* sorted(filters.items())
Sorted(items) ==
    IF items = <<>> THEN <<>>
    ELSE LET rest == Sorted(Tail(items))
             Before(q) == PairLess(q, Head(items))
             NotBefore(q) == ~PairLess(q, Head(items))
         IN  SelectSeq(rest, Before) \o <<Head(items)>> \o SelectSeq(rest, NotBefore)

RECURSIVE ReprTuples(_, _)
\* repr of a list of (key, value) tuples, from the i-th on
ReprTuples(pairs, i) ==
    IF i > Len(pairs) THEN ""
    ELSE (IF i > 1 THEN ", " ELSE "") \o "(" \o ReprStr(pairs[i][1]) \o ", "
            \o Repr(pairs[i][2], {}) \o ")" \o ReprTuples(pairs, i + 1)

\* f"{name}_page_{page}_per_page_{per_page}_filters_{sorted(filters.items())}"
cache_key(name, page, per_page, filters) ==
    name \o "_page_" \o IntStr(page) \o "_per_page_" \o IntStr(per_page)
         \o "_filters_[" \o ReprTuples(Sorted(Entries(filters)), 1) \o "]"

\* the dict paginate_data returns
PageDict(result) ==
    JDict(<< <<"items", JList(result.items)>>, <<"total", JInt(result.total)>>,
             <<"page", JInt(result.page)>>, <<"per_page", JInt(result.per_page)>>,
             <<"total_pages", JInt(result.total_pages)>> >>)

\* the records of a collection, as the list the helpers are given
Records(coll) == [i \in 1..Len(coll) |-> JRef(coll[i])]

\* GET of a list endpoint.  A cache entry holds a copy of the result taken
\* when it was set, kept here as the response that copy serialises to.
ListRequest(name, coll, page, per_page, filters) ==
    /\ Serving
    /\ nreq' = nreq + 1
    /\ UNCHANGED <<store, caller>>
    /\ LET key == cache_key(name, page, per_page, filters)
           result == paginate_data(filter_data(Records(coll), filters).value, page, per_page)
       IN  \/ \E c \in cache_get(key) :
                 /\ resp' = c.value
                 /\ UNCHANGED cache
           \/ IF result.error # ""
              THEN /\ resp' = ServerError(result.error)
                   /\ UNCHANGED cache
              ELSE /\ resp' = jsonify(heap, PageDict(result), 200)
                   /\ cache' = cache_set(cache, key, resp')

\* GET /api/organizations
ListOrganizations(page, per_page, filters) ==
    ListRequest("organizations", SAMPLE_ORGANIZATIONS, page, per_page, filters)

\* GET /api/users
ListUsers(page, per_page, filters) ==
    ListRequest("users", SAMPLE_USERS, page, per_page, filters)

\* GET /api/profiles
ListProfiles(page, per_page, filters) ==
    ListRequest("profiles", SAMPLE_PROFILES, page, per_page, filters)

-----------------------------------------------------------------------------
(* Users *)

\* POST /api/users
PostUsers(data, now) ==
    /\ Serving
    /\ nreq' = nreq + 1
    /\ cache' = {}
    /\ UNCHANGED <<SAMPLE_ORGANIZATIONS, SAMPLE_PROFILES, caller>>
    /\ LET provided_id == GetOr(Entries(data), "id", JNone)
           user_id == IF Truthy(provided_id) THEN provided_id.v
                      ELSE AutoId("USER", SAMPLE_USERS)
           new_user == << <<"id", JStr(user_id)>>,
                          <<"name", Lookup(Entries(data), "name")>>,
                          <<"email", Lookup(Entries(data), "email")>>,
                          <<"organization_id", GetOr(Entries(data), "organization_id", JNone)>>,
                          <<"profile_id", JStr("PROF" \o Format03d(Len(SAMPLE_PROFILES) + 1))>>,
                          <<"metadata", NewMetadata(now)>> >>
       IN  IF ~validate_json_payload(data).ok
           THEN /\ resp' = ErrorResponse(validate_json_payload(data).msg, 400)
                /\ UNCHANGED <<heap, SAMPLE_USERS>>
           ELSE IF ~IsDict(data)
           THEN /\ resp' = ServerError("AttributeError")
                /\ UNCHANGED <<heap, SAMPLE_USERS>>
           ELSE IF ~validate_user_data(data, FALSE, JNone).ok
           THEN /\ resp' = ErrorResponse(validate_user_data(data, FALSE, JNone).msg, 400)
                /\ UNCHANGED <<heap, SAMPLE_USERS>>
           ELSE IF Truthy(provided_id) /\ ~check_duplicate_id("user", provided_id, JNone).ok
           THEN /\ resp' = ErrorResponse(check_duplicate_id("user", provided_id, JNone).msg, 409)
                /\ UNCHANGED <<heap, SAMPLE_USERS>>
           ELSE IF user_id = ""
           THEN /\ resp' = NoResponse
                /\ UNCHANGED <<heap, SAMPLE_USERS>>
           ELSE /\ heap' = Append(heap, new_user)
                /\ SAMPLE_USERS' = Append(SAMPLE_USERS, Len(heap) + 1)
                /\ resp' = jsonify(heap', JRef(Len(heap) + 1), 201)

\* GET, PUT, DELETE /api/users/<user_id>
GetUser(user_id) ==
    /\ Serving
    /\ nreq' = nreq + 1
    /\ UNCHANGED <<SAMPLE_ORGANIZATIONS, SAMPLE_USERS, SAMPLE_PROFILES, cache, caller>>
    /\ LET user == FindById(SAMPLE_USERS, user_id)
           org == IF \E i \in 1..Len(SAMPLE_ORGANIZATIONS) :
                        Lookup(heap[SAMPLE_ORGANIZATIONS[i]], "id") = Lookup(heap[user], "organization_id")
                  THEN SAMPLE_ORGANIZATIONS[CHOOSE i \in 1..Len(SAMPLE_ORGANIZATIONS) :
                          /\ Lookup(heap[SAMPLE_ORGANIZATIONS[i]], "id") = Lookup(heap[user], "organization_id")
                          /\ \A j \in 1..(i - 1) :
                                Lookup(heap[SAMPLE_ORGANIZATIONS[j]], "id") # Lookup(heap[user], "organization_id")]
                  ELSE 0
       IN  IF user = 0
           THEN /\ resp' = ErrorResponse("User not found", 404)
                /\ UNCHANGED heap
           ELSE /\ heap' = IF org # 0
                           THEN [heap EXCEPT ![user] = SetKey(@, "organization", JRef(org))]
                           ELSE heap
                /\ resp' = jsonify(heap', JRef(user), 200)

PutUser(user_id, data, now) ==
    /\ Serving
    /\ nreq' = nreq + 1
    /\ UNCHANGED <<SAMPLE_ORGANIZATIONS, SAMPLE_USERS, SAMPLE_PROFILES, caller>>
    /\ LET user == FindById(SAMPLE_USERS, user_id)
       IN  IF user = 0
           THEN /\ resp' = ErrorResponse("User not found", 404)
                /\ UNCHANGED <<heap, cache>>
           ELSE /\ cache' = {}
                /\ IF ~IsDict(data)
                   THEN /\ resp' = ServerError("AttributeError")
                        /\ UNCHANGED heap
                   ELSE /\ heap' = [heap EXCEPT ![user] = UpdateAll(@,
                               << <<"name", GetOr(Entries(data), "name", Lookup(@, "name"))>>,
                                  <<"email", GetOr(Entries(data), "email", Lookup(@, "email"))>>,
                                  <<"organization_id", GetOr(Entries(data), "organization_id",
                                                             Lookup(@, "organization_id"))>>,
                                  <<"metadata", JDict(SetKey(Entries(Lookup(@, "metadata")),
                                                             "updated_at", JStr(now)))>> >>)]
                        /\ resp' = jsonify(heap', JRef(user), 200)

DeleteUser(user_id) ==
    /\ Serving
    /\ nreq' = nreq + 1
    /\ UNCHANGED <<heap, SAMPLE_ORGANIZATIONS, SAMPLE_PROFILES, caller>>
    /\ LET user == FindById(SAMPLE_USERS, user_id)
       IN  IF user = 0
           THEN /\ resp' = ErrorResponse("User not found", 404)
                /\ UNCHANGED <<SAMPLE_USERS, cache>>
           ELSE /\ cache' = {}
                /\ SAMPLE_USERS' = Remove(SAMPLE_USERS, user)
                /\ resp' = [status |-> 204, body |-> JStr("")]

-----------------------------------------------------------------------------
(* Profiles *)

\* POST /api/profiles
PostProfiles(data, now) ==
    /\ Serving
    /\ nreq' = nreq + 1
    /\ cache' = {}
    /\ UNCHANGED <<SAMPLE_ORGANIZATIONS, SAMPLE_USERS, caller>>
    /\ LET provided_id == GetOr(Entries(data), "id", JNone)
           profile_id == IF Truthy(provided_id) THEN provided_id.v
                         ELSE AutoId("PROF", SAMPLE_PROFILES)
           new_profile == << <<"id", JStr(profile_id)>>,
                             <<"name", Lookup(Entries(data), "name")>>,
                             <<"settings", GetOr(Entries(data), "settings", JDict(<<>>))>>,
                             <<"preferences", GetOr(Entries(data), "preferences", JDict(<<>>))>>,
                             <<"metadata", NewMetadata(now)>> >>
       IN  IF ~validate_json_payload(data).ok
           THEN /\ resp' = ErrorResponse(validate_json_payload(data).msg, 400)
                /\ UNCHANGED <<heap, SAMPLE_PROFILES>>
           ELSE IF ~IsDict(data)
           THEN /\ resp' = ServerError("AttributeError")
                /\ UNCHANGED <<heap, SAMPLE_PROFILES>>
           ELSE IF ~validate_profile_data(data, FALSE).ok
           THEN /\ resp' = ErrorResponse(validate_profile_data(data, FALSE).msg, 400)
                /\ UNCHANGED <<heap, SAMPLE_PROFILES>>
           ELSE IF Truthy(provided_id) /\ ~check_duplicate_id("profile", provided_id, JNone).ok
           THEN /\ resp' = ErrorResponse(check_duplicate_id("profile", provided_id, JNone).msg, 409)
                /\ UNCHANGED <<heap, SAMPLE_PROFILES>>
           ELSE IF profile_id = ""
           THEN /\ resp' = NoResponse
                /\ UNCHANGED <<heap, SAMPLE_PROFILES>>
           ELSE /\ heap' = Append(heap, new_profile)
                /\ SAMPLE_PROFILES' = Append(SAMPLE_PROFILES, Len(heap) + 1)
                /\ resp' = jsonify(heap', JRef(Len(heap) + 1), 201)

\* GET, PUT, DELETE /api/profiles/<profile_id>
GetProfile(profile_id) ==
    /\ Serving
    /\ nreq' = nreq + 1
    /\ UNCHANGED <<store, cache, caller>>
    /\ LET profile == FindById(SAMPLE_PROFILES, profile_id)
       IN  IF profile = 0
           THEN resp' = ErrorResponse("Profile not found", 404)
           ELSE resp' = jsonify(heap, JRef(profile), 200)

PutProfile(profile_id, data, now) ==
    /\ Serving
    /\ nreq' = nreq + 1
    /\ UNCHANGED <<SAMPLE_ORGANIZATIONS, SAMPLE_USERS, SAMPLE_PROFILES, caller>>
    /\ LET profile == FindById(SAMPLE_PROFILES, profile_id)
       IN  IF profile = 0
           THEN /\ resp' = ErrorResponse("Profile not found", 404)
                /\ UNCHANGED <<heap, cache>>
           ELSE /\ cache' = {}
                /\ IF ~IsDict(data)
                   THEN /\ resp' = ServerError("AttributeError")
                        /\ UNCHANGED heap
                   ELSE /\ heap' = [heap EXCEPT ![profile] = UpdateAll(@,
                               << <<"name", GetOr(Entries(data), "name", GetOr(@, "name", JNone))>>,
                                  <<"settings", GetOr(Entries(data), "settings",
                                                      GetOr(@, "settings", JDict(<<>>)))>>,
                                  <<"preferences", GetOr(Entries(data), "preferences",
                                                         GetOr(@, "preferences", JDict(<<>>)))>>,
                                  <<"metadata", JDict(SetKey(Entries(GetOr(@, "metadata", JDict(<<>>))),
                                                             "updated_at", JStr(now)))>> >>)]
                        /\ resp' = jsonify(heap', JRef(profile), 200)

DeleteProfile(profile_id) ==
    /\ Serving
    /\ nreq' = nreq + 1
    /\ UNCHANGED <<heap, SAMPLE_ORGANIZATIONS, SAMPLE_USERS, caller>>
    /\ LET profile == FindById(SAMPLE_PROFILES, profile_id)
       IN  IF profile = 0
           THEN /\ resp' = ErrorResponse("Profile not found", 404)
                /\ UNCHANGED <<SAMPLE_PROFILES, cache>>
           ELSE /\ cache' = {}
                /\ SAMPLE_PROFILES' = Remove(SAMPLE_PROFILES, profile)
                /\ resp' = [status |-> 204, body |-> JStr("")]

-----------------------------------------------------------------------------
(* Batch endpoints.  pc names the batch whose loop is running, arg holds   *)
(* its operations and the index of the next one, ret the results so far.   *)

MaxBatchOperations == 50

BatchActions == {JStr("create"), JStr("update"), JStr("delete")}

\* the message for the first operation, from the i-th on, that is not well
\* formed; "" when there is none
RECURSIVE OperationError(_, _)
OperationError(operations, i) ==
    IF i > Len(operations) THEN ""
    ELSE LET op == operations[i]
             n == "Operation " \o IntStr(i) \o ": "
         IN  IF ~IsDict(op) THEN n \o "must be a valid object"
             ELSE IF ~HasKey(Entries(op), "action") THEN n \o "field 'action' is required"
             ELSE IF Lookup(Entries(op), "action") \notin BatchActions
             THEN n \o "field 'action' must be one of: create, update, delete"
             ELSE IF ~HasKey(Entries(op), "data") THEN n \o "field 'data' is required"
             ELSE IF ~IsDict(Lookup(Entries(op), "data"))
             THEN n \o "field 'data' must be a valid object"
             ELSE OperationError(operations, i + 1)

\* validate_batch_operations taking every action for a known one
validate_batch_operations_any_action(operations) ==
    IF operations.t # "list" THEN Invalid("Field 'operations' must be an array")
    ELSE IF Len(operations.v) = 0 THEN Invalid("Field 'operations' cannot be empty")
    ELSE IF Len(operations.v) > MaxBatchOperations
    THEN Invalid("Batch operations limited to 50 items per request")
    ELSE IF \E i \in 1..Len(operations.v) :
                \/ ~IsDict(operations.v[i])
                \/ ~HasKey(Entries(operations.v[i]), "action")
                \/ ~HasKey(Entries(operations.v[i]), "data")
                \/ ~IsDict(Lookup(Entries(operations.v[i]), "data"))
    THEN Invalid(OperationError(operations.v, 1))
    ELSE Valid

validate_batch_operations(operations) ==
    IF operations.t # "list" THEN Invalid("Field 'operations' must be an array")
    ELSE IF Len(operations.v) = 0 THEN Invalid("Field 'operations' cannot be empty")
    ELSE IF Len(operations.v) > MaxBatchOperations
    THEN Invalid("Batch operations limited to 50 items per request")
    ELSE IF OperationError(operations.v, 1) # "" THEN Invalid(OperationError(operations.v, 1))
    ELSE Valid

\* the part of a batch handler that precedes its loop
BatchRequest(name, data) ==
    /\ Serving
    /\ nreq' = nreq + 1
    /\ UNCHANGED <<store, cache>>
    /\ LET operations == GetOr(Entries(data), "operations", JList(<<>>))
       IN  IF ~validate_json_payload(data).ok
           THEN /\ resp' = ErrorResponse(validate_json_payload(data).msg, 400)
                /\ UNCHANGED caller
           ELSE IF ~IsDict(data)
           THEN /\ resp' = ServerError("AttributeError")
                /\ UNCHANGED caller
           ELSE IF ~validate_batch_operations(operations).ok
           THEN /\ resp' = ErrorResponse(validate_batch_operations(operations).msg, 400)
                /\ UNCHANGED caller
           ELSE /\ pc' = name
                /\ arg' = [operations |-> operations.v, i |-> 1]
                /\ ret' = <<>>
                /\ UNCHANGED resp

\* the end of a batch handler, after its loop
BatchResponse(name) ==
    /\ pc = name
    /\ arg.i > Len(arg.operations)
    /\ cache' = {}
    /\ resp' = jsonify(heap, JDict(<< <<"results", JList(ret)>> >>), 200)
    /\ pc' = "api"
    /\ arg' = <<>>
    /\ ret' = <<>>
    /\ UNCHANGED <<store, nreq>>

\* OperationFailed numbering the operations from 0
OperationFailed_from_zero(i, error_msg) ==
    JDict(<< <<"status", JStr("error")>>,
             <<"error", JStr("Operation " \o IntStr(i - 1) \o ": " \o error_msg)>> >>)

OperationFailed(i, error_msg) ==
    JDict(<< <<"status", JStr("error")>>,
             <<"error", JStr("Operation " \o IntStr(i) \o ": " \o error_msg)>> >>)

OperationSucceeded(new) == JDict(<< <<"status", JStr("success")>>, <<"data", JRef(new)>> >>)

\* POST /api/batch/organizations
BatchOrganizations(data) == BatchRequest("batch_organizations", data)

\* one turn of the loop of batch_organizations
BatchOrganizationsOperation(now) ==
    /\ pc = "batch_organizations"
    /\ arg.i <= Len(arg.operations)
    /\ UNCHANGED <<SAMPLE_USERS, SAMPLE_PROFILES, cache, nreq>>
    /\ LET op == Entries(arg.operations[arg.i])
           data == Lookup(op, "data")
           provided_id == GetOr(Entries(data), "id", JNone)
           org_id == IF Truthy(provided_id) THEN provided_id.v
                     ELSE AutoId("ORG", SAMPLE_ORGANIZATIONS)
           new_org == << <<"id", JStr(org_id)>>,
                         <<"name", Lookup(Entries(data), "name")>>,
                         <<"type", Lookup(Entries(data), "type")>>,
                         <<"metadata", NewMetadata(now)>> >>
           Skip(results) == /\ ret' = results
                            /\ arg' = [arg EXCEPT !.i = @ + 1]
                            /\ UNCHANGED <<heap, SAMPLE_ORGANIZATIONS, resp, pc>>
       IN  IF Lookup(op, "action") # JStr("create")
           THEN Skip(ret)
           ELSE IF ~validate_organization_data(data, FALSE).ok
           THEN Skip(Append(ret, OperationFailed(arg.i, validate_organization_data(data, FALSE).msg)))
           ELSE IF Truthy(provided_id) /\ ~check_duplicate_id("organization", provided_id, JNone).ok
           THEN Skip(Append(ret, OperationFailed(arg.i,
                        check_duplicate_id("organization", provided_id, JNone).msg)))
           ELSE IF org_id = ""
           THEN /\ resp' = NoResponse
                /\ pc' = "api"
                /\ UNCHANGED <<heap, SAMPLE_ORGANIZATIONS, arg, ret>>
           ELSE /\ heap' = Append(heap, new_org)
                /\ SAMPLE_ORGANIZATIONS' = Append(SAMPLE_ORGANIZATIONS, Len(heap) + 1)
                /\ ret' = Append(ret, OperationSucceeded(Len(heap) + 1))
                /\ arg' = [arg EXCEPT !.i = @ + 1]
                /\ UNCHANGED <<resp, pc>>

BatchOrganizationsResponse == BatchResponse("batch_organizations")

\* POST /api/batch/users
BatchUsers(data) == BatchRequest("batch_users", data)

\* one turn of the loop of batch_users
BatchUsersOperation(now) ==
    /\ pc = "batch_users"
    /\ arg.i <= Len(arg.operations)
    /\ UNCHANGED <<SAMPLE_ORGANIZATIONS, SAMPLE_PROFILES, cache, nreq>>
    /\ LET op == Entries(arg.operations[arg.i])
           data == Lookup(op, "data")
           provided_id == GetOr(Entries(data), "id", JNone)
           user_id == IF Truthy(provided_id) THEN provided_id.v
                      ELSE AutoId("USER", SAMPLE_USERS)
           new_user == << <<"id", JStr(user_id)>>,
                          <<"name", Lookup(Entries(data), "name")>>,
                          <<"email", Lookup(Entries(data), "email")>>,
                          <<"organization_id", GetOr(Entries(data), "organization_id", JNone)>>,
                          <<"profile_id", JStr("PROF" \o Format03d(Len(SAMPLE_PROFILES) + 1))>>,
                          <<"metadata", NewMetadata(now)>> >>
           Skip(results) == /\ ret' = results
                            /\ arg' = [arg EXCEPT !.i = @ + 1]
                            /\ UNCHANGED <<heap, SAMPLE_USERS, resp, pc>>
       IN  IF Lookup(op, "action") # JStr("create")
           THEN Skip(ret)
           ELSE IF ~validate_user_data(data, FALSE, JNone).ok
           THEN Skip(Append(ret, OperationFailed(arg.i, validate_user_data(data, FALSE, JNone).msg)))
           ELSE IF Truthy(provided_id) /\ ~check_duplicate_id("user", provided_id, JNone).ok
           THEN Skip(Append(ret, OperationFailed(arg.i,
                        check_duplicate_id("user", provided_id, JNone).msg)))
           ELSE IF user_id = ""
           THEN /\ resp' = NoResponse
                /\ pc' = "api"
                /\ UNCHANGED <<heap, SAMPLE_USERS, arg, ret>>
           ELSE /\ heap' = Append(heap, new_user)
                /\ SAMPLE_USERS' = Append(SAMPLE_USERS, Len(heap) + 1)
                /\ ret' = Append(ret, OperationSucceeded(Len(heap) + 1))
                /\ arg' = [arg EXCEPT !.i = @ + 1]
                /\ UNCHANGED <<resp, pc>>

BatchUsersResponse == BatchResponse("batch_users")

-----------------------------------------------------------------------------
(* Advanced search *)

\* the filters parameter as text that json.loads does not accept
NotJson == [t |-> "text", v |-> "not json"]

\* search_in_text, then filter_data, over one collection; each result is
\* copied with its 'type' set
RECURSIVE Tagged(_, _)
Tagged(records, kind) ==
    IF records = <<>> THEN <<>>
    ELSE <<JDict(SetKey(Entries(Head(records)), "type", JStr(kind)))>> \o Tagged(Tail(records), kind)

SearchCollection(coll, kind, query, filters) ==
    LET found == IF query # "" THEN search_in_text(Records(coll), query)
                 ELSE [error |-> "", value |-> Records(coll)]
        kept == filter_data(found.value, filters)
    IN  IF found.error # "" THEN [error |-> found.error, value |-> <<>>]
        ELSE IF kept.error # "" THEN [error |-> kept.error, value |-> <<>>]
        ELSE [error |-> "", value |-> Tagged(kept.value, kind)]

\* the key cache.cached(query_string=True) gives a search: request.path and
\* the digest of the query parameters sorted by name, modelled by the text
\* it digests
search_key(query, entity_type, page, per_page, filters_param) ==
    "/api/search/advanced("
       \o ReprTuples(<< <<"filters", JStr(IF filters_param = NotJson THEN NotJson.v
                                          ELSE Repr(filters_param, {}))>>,
                        <<"page", JStr(IntStr(page))>>,
                        <<"per_page", JStr(IntStr(per_page))>>,
                        <<"q", JStr(query)>>,
                        <<"type", JStr(entity_type)>> >>, 1)
       \o ")"

\* advanced_search(): the answer of the view
advanced_search(query, entity_type, page, per_page, filters_param) ==
    LET filters == IF filters_param = NotJson THEN JDict(<<>>) ELSE filters_param
        none == [error |-> "", value |-> <<>>]
        orgs == IF entity_type \in {"all", "organizations"}
                THEN SearchCollection(SAMPLE_ORGANIZATIONS, "organization", query, filters)
                ELSE none
        users == IF entity_type \in {"all", "users"}
                 THEN SearchCollection(SAMPLE_USERS, "user", query, filters)
                 ELSE none
        profiles == IF entity_type \in {"all", "profiles"}
                    THEN SearchCollection(SAMPLE_PROFILES, "profile", query, filters)
                    ELSE none
        result == paginate_data(orgs.value \o users.value \o profiles.value, page, per_page)
        failure == IF orgs.error # "" THEN orgs.error
                   ELSE IF users.error # "" THEN users.error
                   ELSE IF profiles.error # "" THEN profiles.error
                   ELSE result.error
    IN  IF failure # "" THEN ServerError(failure)
        ELSE jsonify(heap, PageDict(result), 200)

\* GET /api/search/advanced: the answer cache.cached holds for the path and
\* query string, or the view's, which cache.cached then stores
AdvancedSearch(query, entity_type, page, per_page, filters_param) ==
    /\ Serving
    /\ nreq' = nreq + 1
    /\ UNCHANGED <<store, caller>>
    /\ LET key == search_key(query, entity_type, page, per_page, filters_param)
       IN  \/ \E c \in cache_get(key) :
                 /\ resp' = c.value
                 /\ UNCHANGED cache
           \/ /\ resp' = advanced_search(query, entity_type, page, per_page, filters_param)
              /\ cache' = cached(cache, key, resp')

-----------------------------------------------------------------------------
(* The requests the clients send *)

\* an id no sample record has: the second one a create would generate
FreshOrgId == "ORG" \o Format03d(InitOrgs + 2)

FreshUserId == "USER" \o Format03d(InitOrgs * InitUsersPerOrg + 2)

FreshProfileId == "PROF" \o Format03d(InitOrgs * InitUsersPerOrg + 2)

OrgIds == {"ORG001", "ORG404"}

UserIds == {"USER001_001", "USER002_001", "USER404"}

ProfileIds == {"PROF001_001", "PROF404"}

Acme == << <<"name", JStr("Acme")>>, <<"type", JStr("startup")>> >>

OrgPayloads ==
    { JDict(Acme),
      JDict(<< <<"id", JStr("ORG001")>> >> \o Acme),
      JDict(<< <<"id", JStr(FreshOrgId)>> >> \o Acme),
      JDict(<< <<"name", JStr("Acme")>>, <<"type", JStr("bogus")>> >>),
      JNone }

OrgUpdates ==
    { JDict(<< <<"name", JStr("Renamed")>> >>),
      JDict(<< <<"id", JStr("ORG002")>>, <<"type", JStr("bogus")>> >>),
      JNone }

Ann == << <<"name", JStr("Ann")>>, <<"email", JStr("ann@example.com")>> >>

Bob == << <<"name", JStr("Bob")>>, <<"email", JStr("bob@example.com")>>,
          <<"organization_id", JStr("ORG001")>> >>

UserPayloads ==
    { JDict(Ann),
      JDict(<< <<"name", JStr("Ann")>>, <<"email", JStr("test1_1@example.com")>> >>),
      JDict(<< <<"id", JStr("USER001_001")>> >> \o Bob),
      JDict(<< <<"id", JStr(FreshUserId)>> >> \o Bob),
      JDict(Ann \o << <<"organization_id", JStr("ORG404")>> >>) }

UserUpdates ==
    { JDict(<< <<"email", JStr("test1_1@example.com")>> >>),
      JDict(<< <<"id", JStr("USER001_001")>>, <<"name", JStr("Renamed")>>,
               <<"organization_id", JStr("ORG002")>> >>),
      JDict(<< <<"name", JStr("")>>, <<"email", JStr("not-an-email")>>,
               <<"organization_id", JStr("ORG404")>> >>),
      JNone }

Prefs == << <<"name", JStr("Prefs")>> >>

ProfilePayloads ==
    { JDict(Prefs),
      JDict(<< <<"id", JStr("PROF001_001")>> >> \o Prefs),
      JDict(<< <<"id", JStr(FreshProfileId)>> >> \o Prefs
            \o << <<"settings", JDict(<< <<"theme", JStr("dark")>> >>)>> >>),
      JDict(Prefs \o << <<"settings", JStr("dark")>> >>) }

ProfileUpdates ==
    { JDict(<< <<"id", JStr("PROF002_001")>>, <<"name", JStr("Renamed")>> >>),
      JNone }

\* page, per_page and the other query parameters of a list request
ListQueries ==
    { [page |-> 1, per_page |-> 10, filters |-> JDict(<<>>)],
      [page |-> 2, per_page |-> 1, filters |-> JDict(<< <<"name", JStr("test")>> >>)],
      [page |-> 1, per_page |-> 0, filters |-> JDict(<<>>)] }

\* GET /api/organizations?type=es
TypeQueries == { [page |-> 1, per_page |-> 10, filters |-> JDict(<< <<"type", JStr("es")>> >>)] }

\* GET /api/users?organization_id=rg002
OrganizationIdQueries ==
    { [page |-> 1, per_page |-> 10, filters |-> JDict(<< <<"organization_id", JStr("rg002")>> >>)] }

Operation(action, data) == JDict(<< <<"action", JStr(action)>>, <<"data", data>> >>)

Batch(operations) == JDict(<< <<"operations", JList(operations)>> >>)

OrgBatches ==
    { Batch(<< Operation("create", JDict(Acme)),
               Operation("create", JDict(<< <<"id", JStr("ORG001")>> >> \o Acme)),
               Operation("create", JDict(<< <<"id", JStr(FreshOrgId)>> >> \o Acme)) >>),
      Batch(<< Operation("update", JDict(<< <<"id", JStr("ORG001")>>, <<"name", JStr("Renamed")>> >>)),
               Operation("delete", JDict(<< <<"id", JStr("ORG001")>> >>)) >>),
      Batch(<< Operation("create", JDict(<< <<"id", JStr("ORG" \o Format03d(InitOrgs + 3))>> >> \o Acme)),
               Operation("create", JDict(<< <<"id", JStr("ORG" \o Format03d(InitOrgs + 4))>> >> \o Acme)) >>),
      Batch(<<>>) }

UserBatches ==
    { Batch(<< Operation("create", JDict(Ann)),
               Operation("create", JDict(Ann)),
               Operation("create", JDict(<< <<"id", JStr(FreshUserId)>> >> \o Bob)) >>),
      Batch(<< Operation("delete", JDict(<< <<"id", JStr("USER001_001")>> >>)),
               Operation("create", JDict(<< <<"id", JStr("USER001_001")>> >> \o Bob)) >>),
      JNone }

\* one operation more than a batch may carry
TooManyOperations ==
    [i \in 1..(MaxBatchOperations + 1) |->
        Operation("create", JDict(<< <<"id", JStr("ORG001")>> >> \o Acme))]

\* three operations, the second without its 'data'
MissingDataBatch ==
    Batch(<< Operation("create", JDict(Acme)),
             JDict(<< <<"action", JStr("create")>> >>),
             Operation("create", JDict(<< <<"id", JStr(FreshOrgId)>> >> \o Acme)) >>)

\* bodies either batch endpoint may be sent: 'operations' that is no list,
\* is too long, or holds an item that is no object, has no action, has an
\* unknown action, has no data, or has data that is no object
MalformedBatches ==
    { JDict(<< <<"operations", JStr("create")>> >>),
      Batch(TooManyOperations),
      Batch(<< JStr("create") >>),
      Batch(<< JDict(<< <<"data", JDict(Acme)>> >>) >>),
      Batch(<< Operation("purge", JDict(Acme)) >>),
      MissingDataBatch,
      Batch(<< Operation("create", JDict(Acme)), Operation("create", JStr("Acme")) >>) }

Searches ==
    { [q |-> "0", type |-> "all", page |-> 1, per_page |-> 10, filters |-> JDict(<<>>)],
      [q |-> "zebra", type |-> "users", page |-> 1, per_page |-> 10, filters |-> NotJson],
      [q |-> "", type |-> "organizations", page |-> 1, per_page |-> 10, filters |-> JList(<<>>)],
      [q |-> "level 1", type |-> "profiles", page |-> 1, per_page |-> 1,
       filters |-> JDict(<< <<"metadata.version", JStr("1.0")>> >>)] }

\* the Authorization headers of the requests: none, one that is no bearer
\* header, a bearer header with another token, one with two spaces before
\* the token, and the bearer header with the configured token
AuthHeaders ==
    { JNone, JStr("InvalidFormat"), JStr("Bearer invalid_token"),
      JStr("Bearer  " \o BEARER_TOKEN), JStr("Bearer " \o BEARER_TOKEN) }

\* token_error on the headers of the requests
TokenErrors == [auth_header \in AuthHeaders |-> token_error(auth_header)]

\* the decorator require_token around the view f
require_token(auth_header, f) ==
    IF TokenErrors[auth_header] # "" THEN Unauthorized(TokenErrors[auth_header]) ELSE f

\* the view functions on the requests the clients send
View ==
    \/ \E data \in OrgPayloads, now \in UtcNow : PostOrganizations(data, now)
    \/ \E l \in ListQueries \cup TypeQueries : ListOrganizations(l.page, l.per_page, l.filters)
    \/ \E org_id \in OrgIds : GetOrganization(org_id)
    \/ \E org_id \in OrgIds, data \in OrgUpdates, now \in UtcNow : PutOrganization(org_id, data, now)
    \/ \E org_id \in OrgIds : DeleteOrganization(org_id)
    \/ \E data \in UserPayloads, now \in UtcNow : PostUsers(data, now)
    \/ \E l \in ListQueries \cup OrganizationIdQueries : ListUsers(l.page, l.per_page, l.filters)
    \/ \E user_id \in UserIds : GetUser(user_id)
    \/ \E user_id \in UserIds, data \in UserUpdates, now \in UtcNow : PutUser(user_id, data, now)
    \/ \E user_id \in UserIds : DeleteUser(user_id)
    \/ \E data \in ProfilePayloads, now \in UtcNow : PostProfiles(data, now)
    \/ \E l \in ListQueries : ListProfiles(l.page, l.per_page, l.filters)
    \/ \E profile_id \in ProfileIds : GetProfile(profile_id)
    \/ \E profile_id \in ProfileIds, data \in ProfileUpdates, now \in UtcNow :
           PutProfile(profile_id, data, now)
    \/ \E profile_id \in ProfileIds : DeleteProfile(profile_id)
    \/ \E data \in OrgBatches \cup MalformedBatches : BatchOrganizations(data)
    \/ \E data \in UserBatches \cup MalformedBatches : BatchUsers(data)
    \/ \E s \in Searches : AdvancedSearch(s.q, s.type, s.page, s.per_page, s.filters)

\* the steps of a batch whose loop is running
BatchStep ==
    \/ \E now \in UtcNow : BatchOrganizationsOperation(now)
    \/ BatchOrganizationsResponse
    \/ \E now \in UtcNow : BatchUsersOperation(now)
    \/ BatchUsersResponse

\* the requests carry the configured bearer token, so that require_token
\* calls the view
Next == View \/ BatchStep

Spec == Init /\ [][Next]_vars

\* the requests carry any of the Authorization headers
NextAuth ==
    \/ \E auth_header \in AuthHeaders : require_token(auth_header, View)
    \/ BatchStep

SpecAuth == Init /\ [][NextAuth]_vars

-----------------------------------------------------------------------------
(* Requests served by concurrent threads.  app.run() starts the development
   server, which handles every request in a thread of its own; nothing
   locks the collections or the cache, so the statements of two handlers
   interleave.  A create is taken in two steps, its checks and its append;
   a list request in one.  Here pc, arg and resp hold one value for each
   thread: where the thread is in its handler, the create it has checked,
   and its last answer. *)

Threads == {"a", "b"}

MaxRaceRequests == 3

RaceOrgPayloads == { JDict(Acme) }

RaceUserPayloads == { JDict(Ann), JDict(<< <<"id", JStr(FreshUserId)>> >> \o Bob) }

RaceQueries == { [page |-> 1, per_page |-> 10, filters |-> JDict(<<>>)] }

NoCreate == [name |-> "", data |-> JNone, id |-> ""]

InitRace ==
    /\ heap = create_sample_data.heap
    /\ SAMPLE_ORGANIZATIONS = create_sample_data.organizations
    /\ SAMPLE_USERS = create_sample_data.users
    /\ SAMPLE_PROFILES = create_sample_data.profiles
    /\ cache = {}
    /\ resp = [t \in Threads |-> [status |-> 0, body |-> JNone]]
    /\ nreq = 0
    /\ pc = [t \in Threads |-> "idle"]
    /\ arg = [t \in Threads |-> NoCreate]
    /\ ret = <<>>

\* POST /api/organizations and POST /api/users up to the statement that
\* appends: cache.clear(), the validators, the duplicate-id check or the
\* generated id
CreateBegin(t, name, data) ==
    /\ pc[t] = "idle"
    /\ nreq < MaxRaceRequests
    /\ nreq' = nreq + 1
    /\ cache' = {}
    /\ UNCHANGED <<store, ret>>
    /\ LET provided_id == GetOr(Entries(data), "id", JNone)
           entity_type == IF name = "organizations" THEN "organization" ELSE "user"
           validated == IF name = "organizations"
                        THEN validate_organization_data(data, FALSE)
                        ELSE validate_user_data(data, FALSE, JNone)
           id == IF Truthy(provided_id) THEN provided_id.v
                 ELSE AutoId(IF name = "organizations" THEN "ORG" ELSE "USER",
                             Collection(entity_type))
           Return(response) == /\ resp' = [resp EXCEPT ![t] = response]
                               /\ UNCHANGED <<pc, arg>>
       IN  IF ~validate_json_payload(data).ok
           THEN Return(ErrorResponse(validate_json_payload(data).msg, 400))
           ELSE IF ~IsDict(data)
           THEN Return(ServerError("AttributeError"))
           ELSE IF ~validated.ok
           THEN Return(ErrorResponse(validated.msg, 400))
           ELSE IF Truthy(provided_id) /\ ~check_duplicate_id(entity_type, provided_id, JNone).ok
           THEN Return(ErrorResponse(check_duplicate_id(entity_type, provided_id, JNone).msg, 409))
           ELSE IF id = ""
           THEN /\ resp' = [resp EXCEPT ![t] = NoResponse]
                /\ pc' = [pc EXCEPT ![t] = "hung"]
                /\ UNCHANGED arg
           ELSE /\ pc' = [pc EXCEPT ![t] = "checked"]
                /\ arg' = [arg EXCEPT ![t] = [name |-> name, data |-> data, id |-> id]]
                /\ UNCHANGED resp

\* the record the create of thread t appends
NewRecord(t, now) ==
    IF arg[t].name = "organizations"
    THEN << <<"id", JStr(arg[t].id)>>,
            <<"name", Lookup(Entries(arg[t].data), "name")>>,
            <<"type", Lookup(Entries(arg[t].data), "type")>>,
            <<"metadata", NewMetadata(now)>> >>
    ELSE << <<"id", JStr(arg[t].id)>>,
            <<"name", Lookup(Entries(arg[t].data), "name")>>,
            <<"email", Lookup(Entries(arg[t].data), "email")>>,
            <<"organization_id", GetOr(Entries(arg[t].data), "organization_id", JNone)>>,
            <<"profile_id", JStr("PROF" \o Format03d(Len(SAMPLE_PROFILES) + 1))>>,
            <<"metadata", NewMetadata(now)>> >>

\* a create that runs its checks once more in the step that appends
CreateAppend_rechecked(t, now) ==
    /\ pc[t] = "checked"
    /\ pc' = [pc EXCEPT ![t] = "idle"]
    /\ arg' = [arg EXCEPT ![t] = NoCreate]
    /\ UNCHANGED <<SAMPLE_PROFILES, cache, nreq, ret>>
    /\ IF \/ IdTaken(SAMPLE_ORGANIZATIONS, arg[t].id)
          \/ IdTaken(SAMPLE_USERS, arg[t].id)
          \/ arg[t].name = "users" /\ ~validate_user_data(arg[t].data, FALSE, JNone).ok
       THEN /\ resp' = [resp EXCEPT ![t] = ErrorResponse("Conflict", 409)]
            /\ UNCHANGED <<heap, SAMPLE_ORGANIZATIONS, SAMPLE_USERS>>
       ELSE /\ heap' = Append(heap, NewRecord(t, now))
            /\ IF arg[t].name = "organizations"
               THEN /\ SAMPLE_ORGANIZATIONS' = Append(SAMPLE_ORGANIZATIONS, Len(heap) + 1)
                    /\ UNCHANGED SAMPLE_USERS
               ELSE /\ SAMPLE_USERS' = Append(SAMPLE_USERS, Len(heap) + 1)
                    /\ UNCHANGED SAMPLE_ORGANIZATIONS
            /\ resp' = [resp EXCEPT ![t] = jsonify(heap', JRef(Len(heap) + 1), 201)]

\* the rest of the create: the append and the 201
CreateAppend(t, now) ==
    /\ pc[t] = "checked"
    /\ pc' = [pc EXCEPT ![t] = "idle"]
    /\ arg' = [arg EXCEPT ![t] = NoCreate]
    /\ UNCHANGED <<SAMPLE_PROFILES, cache, nreq, ret>>
    /\ heap' = Append(heap, NewRecord(t, now))
    /\ IF arg[t].name = "organizations"
       THEN /\ SAMPLE_ORGANIZATIONS' = Append(SAMPLE_ORGANIZATIONS, Len(heap) + 1)
            /\ UNCHANGED SAMPLE_USERS
       ELSE /\ SAMPLE_USERS' = Append(SAMPLE_USERS, Len(heap) + 1)
            /\ UNCHANGED SAMPLE_ORGANIZATIONS
    /\ resp' = [resp EXCEPT ![t] = jsonify(heap', JRef(Len(heap) + 1), 201)]

\* GET /api/organizations and GET /api/users, from cache.get to the answer
ListDuring(t, name, page, per_page, filters) ==
    /\ pc[t] = "idle"
    /\ nreq < MaxRaceRequests
    /\ nreq' = nreq + 1
    /\ UNCHANGED <<store, caller>>
    /\ LET key == cache_key(name, page, per_page, filters)
           coll == IF name = "organizations" THEN SAMPLE_ORGANIZATIONS ELSE SAMPLE_USERS
           result == paginate_data(filter_data(Records(coll), filters).value, page, per_page)
       IN  \/ \E c \in cache_get(key) :
                 /\ resp' = [resp EXCEPT ![t] = c.value]
                 /\ UNCHANGED cache
           \/ IF result.error # ""
              THEN /\ resp' = [resp EXCEPT ![t] = ServerError(result.error)]
                   /\ UNCHANGED cache
              ELSE /\ resp' = [resp EXCEPT ![t] = jsonify(heap, PageDict(result), 200)]
                   /\ cache' = cache_set(cache, key, resp'[t])

NextRace ==
    \/ \E t \in Threads, data \in RaceOrgPayloads : CreateBegin(t, "organizations", data)
    \/ \E t \in Threads, data \in RaceUserPayloads : CreateBegin(t, "users", data)
    \/ \E t \in Threads, now \in UtcNow : CreateAppend(t, now)
    \/ \E t \in Threads, name \in {"organizations", "users"}, l \in RaceQueries :
           ListDuring(t, name, l.page, l.per_page, l.filters)

SpecRace == InitRace /\ [][NextRace]_vars

-----------------------------------------------------------------------------
(* Properties of the store *)

\* the values the records of a collection have for a field, in order
FieldValues(coll, field) == [i \in 1..Len(coll) |-> GetOr(heap[coll[i]], field, JNone)]

NoDuplicates(values) == \A i, j \in 1..Len(values) : values[i] = values[j] => i = j

HasId(coll, id) == \E i \in 1..Len(coll) : Lookup(heap[coll[i]], "id") = JStr(id)

\* C1: in every state the requests reach, no two organizations have the
\* same id, no two users have the same id and no two profiles have the
\* same id.
C1_IdsUniquePerCollection ==
    /\ NoDuplicates(FieldValues(SAMPLE_ORGANIZATIONS, "id"))
    /\ NoDuplicates(FieldValues(SAMPLE_USERS, "id"))
    /\ NoDuplicates(FieldValues(SAMPLE_PROFILES, "id"))

\* an organization was created with a supplied id, and the next create had
\* to step over that id to generate its own
C1_Witness ==
    /\ HasId(SAMPLE_ORGANIZATIONS, FreshOrgId)
    /\ HasId(SAMPLE_ORGANIZATIONS, "ORG" \o Format03d(InitOrgs + 3))
    /\ resp.status = 201

\* C2: in every state the requests reach, no two stored users have the
\* same email.
C2_EmailsUnique == NoDuplicates(FieldValues(SAMPLE_USERS, "email"))

\* queries the text search is run with: one that no record contains, and
\* one that the sample records contain
ProbeQueries == {"zebra", "test"}

\* C3: in every state the requests reach, the recursive text search gives
\* a match or no-match answer, and no fault, for every stored record of
\* the three collections.
C3_SearchTerminatesOnEveryRecord ==
    \A coll \in {SAMPLE_ORGANIZATIONS, SAMPLE_USERS, SAMPLE_PROFILES} :
        \A i \in 1..Len(coll) : \A q \in ProbeQueries :
            _item_matches_query(JRef(coll[i]), ToLower(q)) \in {"match", "nomatch"}

-----------------------------------------------------------------------------
(* Properties of the batch endpoints *)

BatchEndpoints == {"batch_organizations", "batch_users"}

\* a batch handler returns its response
BatchReturns == pc \in BatchEndpoints /\ pc' = "api" /\ resp'.status = 200

\* the 'results' of a batch response
ResultsOf(response) == Lookup(Entries(response.body), "results").v

\* C13: for every structurally valid batch of n operations, of any mix of
\* create, update and delete actions, the results list of the response has
\* exactly n entries.
C13_OneResultPerOperation ==
    [][BatchReturns => Len(ResultsOf(resp')) = Len(arg.operations)]_vars

\* C14: a batch of three operations whose second operation has no 'data'
\* is not refused as a whole: its operations are run, and the response has
\* three results, the second an error and the first and third successes.
C14_MalformedOperationIsolated ==
    [][/\ (BatchOrganizations(MissingDataBatch) \/ BatchUsers(MissingDataBatch))
              => pc' \in BatchEndpoints
       /\ (BatchReturns /\ arg.operations = Lookup(Entries(MissingDataBatch), "operations").v)
              => /\ Len(ResultsOf(resp')) = 3
                 /\ Lookup(Entries(ResultsOf(resp')[1]), "status") = JStr("success")
                 /\ Lookup(Entries(ResultsOf(resp')[2]), "status") = JStr("error")
                 /\ Lookup(Entries(ResultsOf(resp')[3]), "status") = JStr("success")]_vars

\* an operation of the shape a batch asks for
WellFormedOperation(op) ==
    /\ op.t = "dict"
    /\ \E k \in 1..Len(op.v) : op.v[k][1] = "action"
                                 /\ op.v[k][2] \in {JStr("create"), JStr("update"), JStr("delete")}
    /\ \E k \in 1..Len(op.v) : op.v[k][1] = "data" /\ op.v[k][2].t = "dict"

\* a body whose 'operations' is a list of 1 to 50 well-formed operations
WellFormedBatch(data) ==
    \E k \in 1..Len(data.v) :
        /\ data.v[k][1] = "operations"
        /\ data.v[k][2].t = "list"
        /\ Len(data.v[k][2].v) \in 1..50
        /\ \A i \in 1..Len(data.v[k][2].v) : WellFormedOperation(data.v[k][2].v[i])

\* the batch bodies the clients send that are objects
BatchBodies == {data \in OrgBatches \cup UserBatches \cup MalformedBatches : data.t = "dict"}

AtOperation == pc \in BatchEndpoints /\ arg.i <= Len(arg.operations)

\* the action and the data of that operation
CurrentAction == Lookup(Entries(arg.operations[arg.i]), "action")

CurrentData == Lookup(Entries(arg.operations[arg.i]), "data")

\* the collection the handler appends to
Target == IF pc = "batch_organizations" THEN SAMPLE_ORGANIZATIONS ELSE SAMPLE_USERS

\* the data of the operation fails the entity's validator, or supplies an
\* id a record of the collection has
CreateRefused ==
    LET id == GetOr(Entries(CurrentData), "id", JNone)
    IN  IF pc = "batch_organizations"
        THEN \/ ~validate_organization_data(CurrentData, FALSE).ok
             \/ Truthy(id) /\ IdTaken(SAMPLE_ORGANIZATIONS, id.v)
        ELSE \/ ~validate_user_data(CurrentData, FALSE, JNone).ok
             \/ Truthy(id) /\ IdTaken(SAMPLE_USERS, id.v)

\* an id is supplied, or the loop that generates one ends
IdAvailable ==
    \/ Truthy(GetOr(Entries(CurrentData), "id", JNone))
    \/ AutoId(IF pc = "batch_organizations" THEN "ORG" ELSE "USER", Target) # ""

AfterCreateOrganization(data, now) ==
    LET provided_id == GetOr(Entries(data), "id", JNone)
        org_id == IF Truthy(provided_id) THEN provided_id.v ELSE AutoId("ORG", SAMPLE_ORGANIZATIONS)
    IN  IF \/ ~validate_organization_data(data, FALSE).ok
           \/ Truthy(provided_id) /\ IdTaken(SAMPLE_ORGANIZATIONS, provided_id.v)
           \/ org_id = ""
        THEN store
        ELSE <<Append(heap, << <<"id", JStr(org_id)>>,
                               <<"name", Lookup(Entries(data), "name")>>,
                               <<"type", Lookup(Entries(data), "type")>>,
                               <<"metadata", NewMetadata(now)>> >>),
               Append(SAMPLE_ORGANIZATIONS, Len(heap) + 1), SAMPLE_USERS, SAMPLE_PROFILES>>

AfterUpdate(coll, fields, id, data, now) ==
    LET a == FindById(coll, id)
    IN  IF a = 0 THEN store
        ELSE <<[heap EXCEPT ![a] = UpdateAll(@,
                   [k \in 1..Len(fields) |->
                       <<fields[k], GetOr(Entries(data), fields[k], Lookup(heap[a], fields[k]))>>]
                   \o << <<"metadata", JDict(SetKey(Entries(Lookup(heap[a], "metadata")),
                                                    "updated_at", JStr(now)))>> >>)],
               SAMPLE_ORGANIZATIONS, SAMPLE_USERS, SAMPLE_PROFILES>>

AfterDeleteOrganization(id) ==
    <<heap, Remove(SAMPLE_ORGANIZATIONS, FindById(SAMPLE_ORGANIZATIONS, id)), SAMPLE_USERS, SAMPLE_PROFILES>>

AfterCreateUser(data, now) ==
    LET provided_id == GetOr(Entries(data), "id", JNone)
        user_id == IF Truthy(provided_id) THEN provided_id.v ELSE AutoId("USER", SAMPLE_USERS)
    IN  IF \/ ~validate_user_data(data, FALSE, JNone).ok
           \/ Truthy(provided_id) /\ IdTaken(SAMPLE_USERS, provided_id.v)
           \/ user_id = ""
        THEN store
        ELSE <<Append(heap, << <<"id", JStr(user_id)>>,
                               <<"name", Lookup(Entries(data), "name")>>,
                               <<"email", Lookup(Entries(data), "email")>>,
                               <<"organization_id", GetOr(Entries(data), "organization_id", JNone)>>,
                               <<"profile_id", JStr("PROF" \o Format03d(Len(SAMPLE_PROFILES) + 1))>>,
                               <<"metadata", NewMetadata(now)>> >>),
               SAMPLE_ORGANIZATIONS, Append(SAMPLE_USERS, Len(heap) + 1), SAMPLE_PROFILES>>

AfterDeleteUser(id) ==
    <<heap, SAMPLE_ORGANIZATIONS, Remove(SAMPLE_USERS, FindById(SAMPLE_USERS, id)), SAMPLE_PROFILES>>

\* the id an update or delete operation names
CurrentId == PyStr(GetOr(Entries(CurrentData), "id", JNone))

\* C17: each operation of a batch leaves the store as the single request
\* of the same kind would, sent alone in the same state: create as POST,
\* update as PUT and delete as DELETE on the id the data names; the single
\* requests themselves, when their view runs, leave the store as written
\* above, and the operations run in list order.
C17_BatchOperationAsSingleRequest ==
    [][/\ \A now \in UtcNow :
             /\ \A data \in {d \in OrgPayloads : IsDict(d)} :
                    PostOrganizations(data, now) => store' = AfterCreateOrganization(data, now)
             /\ \A id \in OrgIds, data \in {d \in OrgUpdates : IsDict(d)} :
                    (PutOrganization(id, data, now) /\ cache_get(organization_key(id)) = {})
                       => store' = AfterUpdate(SAMPLE_ORGANIZATIONS, <<"name", "type">>, id, data, now)
             /\ \A data \in {d \in UserPayloads : IsDict(d)} :
                    PostUsers(data, now) => store' = AfterCreateUser(data, now)
             /\ \A id \in UserIds, data \in {d \in UserUpdates : IsDict(d)} :
                    PutUser(id, data, now)
                       => store' = AfterUpdate(SAMPLE_USERS, <<"name", "email", "organization_id">>,
                                               id, data, now)
       /\ \A id \in OrgIds :
             (DeleteOrganization(id) /\ cache_get(organization_key(id)) = {})
                => store' = AfterDeleteOrganization(id)
       /\ \A id \in UserIds : DeleteUser(id) => store' = AfterDeleteUser(id)
       /\ AtOperation =>
             /\ arg'.i = arg.i + 1
             /\ \E now \in UtcNow :
                   store' =
                      CASE pc = "batch_organizations" /\ CurrentAction = JStr("create") ->
                              AfterCreateOrganization(CurrentData, now)
                        [] pc = "batch_organizations" /\ CurrentAction = JStr("update") ->
                              AfterUpdate(SAMPLE_ORGANIZATIONS, <<"name", "type">>,
                                          CurrentId, CurrentData, now)
                        [] pc = "batch_organizations" /\ CurrentAction = JStr("delete") ->
                              AfterDeleteOrganization(CurrentId)
                        [] pc = "batch_users" /\ CurrentAction = JStr("create") ->
                              AfterCreateUser(CurrentData, now)
                        [] pc = "batch_users" /\ CurrentAction = JStr("update") ->
                              AfterUpdate(SAMPLE_USERS, <<"name", "email", "organization_id">>,
                                          CurrentId, CurrentData, now)
                        [] pc = "batch_users" /\ CurrentAction = JStr("delete") ->
                              AfterDeleteUser(CurrentId)]_vars

-----------------------------------------------------------------------------
(* Properties of the single-entity updates *)

\* C18: a PUT on a stored record whose payload has a field that breaks the
\* entity's rules (organization type outside the enum, name empty or too
\* long, email malformed or used by another user, organization_id naming no
\* organization) is answered with an error and leaves the store as it was.
C18_InvalidUpdateRejected ==
    [][\A now \in UtcNow :
          /\ \A id \in OrgIds, data \in {d \in OrgUpdates : IsDict(d)} :
                (/\ PutOrganization(id, data, now)
                 /\ FindById(SAMPLE_ORGANIZATIONS, id) # 0
                 /\ ~validate_organization_data(data, TRUE).ok)
                   => (resp'.status = 400 /\ store' = store)
          /\ \A id \in UserIds, data \in {d \in UserUpdates : IsDict(d)} :
                (/\ PutUser(id, data, now)
                 /\ FindById(SAMPLE_USERS, id) # 0
                 /\ ~validate_user_data(data, TRUE, JStr(id)).ok)
                   => (resp'.status = 400 /\ store' = store)
          /\ \A id \in ProfileIds, data \in {d \in ProfileUpdates : IsDict(d)} :
                (/\ PutProfile(id, data, now)
                 /\ FindById(SAMPLE_PROFILES, id) # 0
                 /\ ~validate_profile_data(data, TRUE).ok)
                   => (resp'.status = 400 /\ store' = store)]_vars

-----------------------------------------------------------------------------
(* Properties of the single-entity requests *)

\* the records of a collection whose id is not id, in their order
Without(coll, id) == SelectSeq(coll, LAMBDA a : Lookup(heap[a], "id") # JStr(id))

\* what the claim asks of a DELETE for id on the collection that is coll
\* before the request and after in the state that follows
Deleted(coll, after, id) ==
    IF HasId(coll, id)
    THEN /\ \A i \in 1..Len(after) : Lookup(heap'[after[i]], "id") # JStr(id)
         /\ after = Without(coll, id)
         /\ \A i \in 1..Len(after) : heap'[after[i]] = heap[after[i]]
    ELSE /\ resp'.status = 404
         /\ store' = store

\* C21: a DELETE for an id that a record of the collection has removes that
\* record, whatever requests came before: afterwards no record of the
\* collection has the id and the other records are all there, unchanged
\* and in the same order; a DELETE for an id no record has is answered 404
\* and changes nothing.
C21_DeleteRemovesExactlyThatRecord ==
    [][/\ \A id \in OrgIds :
             DeleteOrganization(id) => Deleted(SAMPLE_ORGANIZATIONS, SAMPLE_ORGANIZATIONS', id)
       /\ \A id \in UserIds :
             DeleteUser(id) => Deleted(SAMPLE_USERS, SAMPLE_USERS', id)
       /\ \A id \in ProfileIds :
             DeleteProfile(id) => Deleted(SAMPLE_PROFILES, SAMPLE_PROFILES', id)]_vars

\* the records of coll are the same records with the same contents in the
\* state that follows
SameRecords(coll, after) ==
    /\ after = coll
    /\ \A i \in 1..Len(coll) : heap'[coll[i]] = heap[coll[i]]

\* C22: a DELETE of an organization leaves the users and the profiles as
\* they are: the same records with the same contents, and every user that
\* named the organization as its organization_id still does.
C22_DeleteOrganizationKeepsUsersAndProfiles ==
    [][\A id \in OrgIds :
          DeleteOrganization(id) =>
              /\ SameRecords(SAMPLE_USERS, SAMPLE_USERS')
              /\ SameRecords(SAMPLE_PROFILES, SAMPLE_PROFILES')
              /\ \A i \in 1..Len(SAMPLE_USERS) :
                    Lookup(heap[SAMPLE_USERS[i]], "organization_id") = JStr(id)
                        => /\ i \in 1..Len(SAMPLE_USERS')
                           /\ Lookup(heap'[SAMPLE_USERS'[i]], "organization_id") = JStr(id)]_vars

\* ORG001 has been deleted and a user still names it
C22_Witness ==
    /\ resp.status = 204
    /\ ~HasId(SAMPLE_ORGANIZATIONS, "ORG001")
    /\ \E i \in 1..Len(SAMPLE_USERS) :
          Lookup(heap[SAMPLE_USERS[i]], "organization_id") = JStr("ORG001")

\* every record of the three collections is stored as before
AllRecordsSame ==
    /\ SameRecords(SAMPLE_ORGANIZATIONS, SAMPLE_ORGANIZATIONS')
    /\ SameRecords(SAMPLE_USERS, SAMPLE_USERS')
    /\ SameRecords(SAMPLE_PROFILES, SAMPLE_PROFILES')

\* C29: a GET of a single organization or of a single user leaves every
\* record of the three collections with the fields and the values it had.
C29_GetLeavesRecordsUnchanged ==
    [][/\ \A id \in OrgIds : GetOrganization(id) => AllRecordsSame
       /\ \A id \in UserIds : GetUser(id) => AllRecordsSame]_vars

-----------------------------------------------------------------------------
(* Properties of the bearer token check *)

\* the request has no Authorization header
Absent(auth_header) == auth_header = JNone

\* the header is there and does not start with 'Bearer '
NotBearer(auth_header) ==
    /\ auth_header # JNone
    /\ Len(auth_header.v) < 7 \/ SubSeq(auth_header.v, 1, 7) # "Bearer "

\* the token of a header that starts with 'Bearer ': the word that follows,
\* which ends at the next space or with the header
TokenOf(v) ==
    LET rest == SubSeq(v, 8, Len(v))
        spaces == {i \in 1..Len(rest) : CharAt(rest, i) = " "}
    IN  IF spaces = {} THEN rest
        ELSE SubSeq(rest, 1, (CHOOSE i \in spaces : \A j \in spaces : i <= j) - 1)

\* the header starts with 'Bearer ' and its token is not the configured one
WrongToken(auth_header) ==
    /\ auth_header # JNone
    /\ Len(auth_header.v) >= 7
    /\ SubSeq(auth_header.v, 1, 7) = "Bearer "
    /\ TokenOf(auth_header.v) # "ft_test_api_2024"

\* C23: a request whose Authorization header is absent, does not start
\* with 'Bearer ' or carries another token than the configured one is
\* answered 401 with an error body, which reads 'Invalid token' for a wrong
\* token, and no view runs: the three collections and their records are
\* as before.
C23_BadTokenRefused ==
    [][\A auth_header \in AuthHeaders :
          /\ Absent(auth_header) \/ NotBearer(auth_header) \/ WrongToken(auth_header)
          /\ require_token(auth_header, View)
          => /\ resp'.status = 401
             /\ resp'.body.t = "dict"
             /\ HasKey(resp'.body.v, "error")
             /\ Lookup(resp'.body.v, "error").t = "str"
             /\ Lookup(resp'.body.v, "error").v # ""
             /\ WrongToken(auth_header) => Lookup(resp'.body.v, "error") = JStr("Invalid token")
             /\ store' = store]_vars

\* a request with a wrong token has been refused after a create went through
C23_Witness ==
    /\ resp = ErrorResponse("Invalid token", 401)
    /\ Len(SAMPLE_ORGANIZATIONS) > InitOrgs

-----------------------------------------------------------------------------
(* Properties of the list endpoints *)

\* the response is a page of items
ListAnswer(response) ==
    response.status = 200 /\ response.body.t = "dict" /\ HasKey(response.body.v, "items")

\* the items of a list answer
ItemsOf(response) == Lookup(response.body.v, "items").v

\* every item of the answer has exactly the value as its field
OnlyEqual(response, field, value) ==
    \A i \in 1..Len(ItemsOf(response)) :
        Lookup(ItemsOf(response)[i].v, field) = value

\* every item of the answer has a field whose text contains the text of the
\* value, letter case aside
OnlyContaining(response, field, value) ==
    \A i \in 1..Len(ItemsOf(response)) :
        Contains(ToLower(PyStr(Lookup(ItemsOf(response)[i].v, field))), ToLower(PyStr(value)))

\* C24 as stated: a list request filtered on a plain field with value V,
\* type on organizations and organization_id on users, returns only items
\* whose field is exactly equal to V.
C24_ListFilterReturnsOnlyEqual ==
    [][/\ \A l \in TypeQueries :
             ListAnswer(resp') /\ ListOrganizations(l.page, l.per_page, l.filters)
                 => OnlyEqual(resp', "type", Lookup(l.filters.v, "type"))
       /\ \A l \in OrganizationIdQueries :
             ListAnswer(resp') /\ ListUsers(l.page, l.per_page, l.filters)
                 => OnlyEqual(resp', "organization_id", Lookup(l.filters.v, "organization_id"))]_vars

\* C24 as amended: a list request filtered on a plain field with value V
\* returns only items whose field, written as text, contains V, letter
\* case aside.
C24_ListFilterReturnsOnlyContaining ==
    [][/\ \A l \in TypeQueries :
             ListAnswer(resp') /\ ListOrganizations(l.page, l.per_page, l.filters)
                 => OnlyContaining(resp', "type", Lookup(l.filters.v, "type"))
       /\ \A l \in OrganizationIdQueries :
             ListAnswer(resp') /\ ListUsers(l.page, l.per_page, l.filters)
                 => OnlyContaining(resp', "organization_id", Lookup(l.filters.v, "organization_id"))]_vars

\* a user has been created and the users filtered on organization_id are
\* listed: one of the three is in the answer, the user of ORG002
C24_Witness ==
    /\ Len(SAMPLE_USERS) = InitOrgs * InitUsersPerOrg + 1
    /\ ListAnswer(resp)
    /\ Lookup(resp.body.v, "total") = JInt(1)
    /\ Len(ItemsOf(resp)) = 1
    /\ Lookup(ItemsOf(resp)[1].v, "organization_id") = JStr("ORG002")

-----------------------------------------------------------------------------
(* Properties of the advanced search *)

\* C25: a search whose filters parameter is not a JSON object, text that
\* does not parse or JSON of another kind, is answered as the same search
\* with an empty filter mapping is: no filtering, and no fault of its own.
C25_UnusableFiltersAreEmptyFilters ==
    [][\A s \in Searches :
          /\ s.filters = NotJson \/ ~IsDict(s.filters)
          /\ cache_get(search_key(s.q, s.type, s.page, s.per_page, s.filters)) = {}
          /\ AdvancedSearch(s.q, s.type, s.page, s.per_page, s.filters)
          => resp' = advanced_search(s.q, s.type, s.page, s.per_page, JDict(<<>>))]_vars

\* the collections an entity type selects, with the kind their items show
Selected(entity_type) ==
    (IF entity_type \in {"all", "organizations"}
     THEN {[kind |-> "organization", coll |-> SAMPLE_ORGANIZATIONS]} ELSE {})
    \cup (IF entity_type \in {"all", "users"}
          THEN {[kind |-> "user", coll |-> SAMPLE_USERS]} ELSE {})
    \cup (IF entity_type \in {"all", "profiles"}
          THEN {[kind |-> "profile", coll |-> SAMPLE_PROFILES]} ELSE {})

\* the item shows every field of the stored record with its value
ShowsRecord(item, record) ==
    \A k \in 1..Len(record) :
        /\ HasKey(item.v, record[k][1])
        /\ Lookup(item.v, record[k][1]) = Snapshot(heap, record[k][2])

\* C27: every item of a search answer is a stored record of a selected
\* kind, with the stored values of all its fields, and has a 'type' that
\* names the kind.
C27_SearchItemsAreStoredRecordsWithKind ==
    [][\A s \in Searches :
          /\ ListAnswer(resp')
          /\ cache_get(search_key(s.q, s.type, s.page, s.per_page, s.filters)) = {}
          /\ AdvancedSearch(s.q, s.type, s.page, s.per_page, s.filters)
          => \A i \in 1..Len(ItemsOf(resp')) :
                \E sel \in Selected(s.type) : \E j \in 1..Len(sel.coll) :
                    /\ Lookup(ItemsOf(resp')[i].v, "type") = JStr(sel.kind)
                    /\ ShowsRecord(ItemsOf(resp')[i], heap[sel.coll[j]])]_vars

-----------------------------------------------------------------------------
(* Properties of the generated ids *)

\* the payload supplies no id
NoId(data) == IsDict(data) /\ ~HasKey(Entries(data), "id")

\* the collection has one record more, at its end, and no record it had
\* before has the id of that record
CreatedWithNewId(coll, after) ==
    /\ Len(after) = Len(coll) + 1
    /\ SubSeq(after, 1, Len(coll)) = coll
    /\ \A i \in 1..Len(coll) :
          Lookup(heap[coll[i]], "id") # Lookup(heap'[after[Len(after)]], "id")

\* C28: a create without an id whose payload passes validation ends, in
\* every state that creates and deletes lead to, with a new record whose
\* id no record of the collection had: as a request for an organization or
\* a user it is answered 201, as a batch operation the loop goes on.
C28_CreateWithoutIdEndsWithNewId ==
    [][/\ \A data \in OrgPayloads, now \in UtcNow :
             /\ NoId(data)
             /\ validate_organization_data(data, FALSE).ok
             /\ PostOrganizations(data, now)
             => /\ resp'.status = 201
                /\ CreatedWithNewId(SAMPLE_ORGANIZATIONS, SAMPLE_ORGANIZATIONS')
       /\ \A data \in UserPayloads, now \in UtcNow :
             /\ NoId(data)
             /\ validate_user_data(data, FALSE, JNone).ok
             /\ PostUsers(data, now)
             => /\ resp'.status = 201
                /\ CreatedWithNewId(SAMPLE_USERS, SAMPLE_USERS')
       /\ (AtOperation /\ CurrentAction = JStr("create") /\ NoId(CurrentData) /\ ~CreateRefused)
             => /\ pc' = pc
                /\ CreatedWithNewId(Target, Target')]_vars

-----------------------------------------------------------------------------
(* Properties of the requests served by concurrent threads *)

\* the values the records of a collection have in a field
StoredValues(coll, field) ==
    [i \in 1..Len(coll) |-> GetOr(heap[coll[i]], field, JNone)]

\* two records of the collection have the same value in the field
Shared(coll, field) ==
    \E i, j \in 1..Len(coll) :
        i < j /\ StoredValues(coll, field)[i] = StoredValues(coll, field)[j]

\* C26: a create that has run its checks succeeds whatever the other
\* threads have appended since: when two creates both run their checks
\* before either appends, both are answered 201 and both records are
\* stored, with the id and the email that were checked.
C26_CheckedCreatesBothSucceed ==
    [][\A t \in Threads, now \in UtcNow :
          CreateAppend(t, now) =>
              LET before == IF arg[t].name = "organizations"
                            THEN SAMPLE_ORGANIZATIONS ELSE SAMPLE_USERS
                  after == IF arg[t].name = "organizations"
                           THEN SAMPLE_ORGANIZATIONS' ELSE SAMPLE_USERS'
              IN  /\ resp'[t].status = 201
                  /\ Len(after) = Len(before) + 1
                  /\ Lookup(heap'[after[Len(after)]], "id") = JStr(arg[t].id)
                  /\ arg[t].name = "users" =>
                         Lookup(heap'[after[Len(after)]], "email")
                             = Lookup(Entries(arg[t].data), "email")
                  /\ \A u \in Threads : pc[u] = "checked" /\ u # t => pc'[u] = "checked"]_vars

\* both threads have created a user from the same payload: the two users
\* share their email and their id
C26_Witness ==
    /\ \A t \in Threads : resp[t].status = 201 /\ pc[t] = "idle"
    /\ Shared(SAMPLE_USERS, "email")
    /\ Shared(SAMPLE_USERS, "id")

\* the page a list request computes from the collection as it is
FreshPage(name, page, per_page, filters) ==
    jsonify(heap,
            PageDict(paginate_data(filter_data(Records(IF name = "organizations"
                                                       THEN SAMPLE_ORGANIZATIONS
                                                       ELSE SAMPLE_USERS),
                                               filters).value,
                                   page, per_page)),
            200)

\* C30: a list request is never answered with a page computed before a
\* create that has completed: as every create completes with its append,
\* the answer is the page of the collection as it is when the request is
\* served.
C30_ListNeverServesStalePage ==
    [][\A t \in Threads, name \in {"organizations", "users"}, l \in RaceQueries :
          ListDuring(t, name, l.page, l.per_page, l.filters)
              => resp'[t] = FreshPage(name, l.page, l.per_page, l.filters)]_vars

====
